---- MODULE Spec2Model ----
(***************************************************************************)
(* Group-chat orchestration engine of nhcloud/agentcon-workshop.           *)
(*                                                                         *)
(* Two implementations of the same orchestrator are modelled side by side: *)
(*   "lc"  EnhancedLangChainAgentGroupChat                                 *)
(*         src/Backend/python/langchain/agents/agent_group_chat.py         *)
(*   "sk"  SemanticKernelAgentGroupChat                                    *)
(*         src/Backend/python/sk/agents/agent_group_chat.py                *)
(* A session is a record of the object's fields; a call (send_message or   *)
(* broadcast_message) is a coroutine whose position is kept in call[c].pc  *)
(* and which moves from one await to the next in one atomic step.          *)
(***************************************************************************)
EXTENDS Integers, Sequences, FiniteSets, TLC

VARIABLES
    impl,       \* which implementation the process runs: "lc" or "sk"
    env,        \* AZURE_OPENAI_ENDPOINT / AZURE_OPENAI_API_KEY: "absent", "present", or
                \* "summary" (present, and AZURE_OPENAI_SUMMARY_DEPLOYMENT_NAME set too)
    registry,   \* AgentRegistry._agents: the names that resolve (lc only)
    sess,       \* session id -> the orchestrator object's fields
    call,       \* call id -> the coroutine of one send_message / broadcast_message
    sel,        \* the last application of _select_next_speaker on its own (SpecSelect)
    last        \* the operation that led to this state, and the session before it

vars == <<impl, env, registry, sess, call, sel, last>>

----------------------------------------------------------------------------
(* Bounds and input sets *)

\* A call is started only while the history holds fewer entries than this.
MaxHistory == 3

\* Counter values the selector is applied to on its own (SpecSelect).
MaxCounter == 2

Impls == {"lc", "sk"}
Sessions == {"s1", "s2"}
Main == "s1"
Calls == {"c1", "c2"}

None == "<None>"

AgentNames == {"people_x", "knowledge_y", "Analyst"}

UserMessages == {"Who leads?", "status"}
Replies == {"ok", "We can Terminate now"}
ErrorText == "boom"

MaxTurnsChoices == {1, 2}
\* GroupChatConfig.termination_keyword: str = "TERMINATE"
DefaultKeyword == "TERMINATE"

----------------------------------------------------------------------------
(* Text: Python's str.lower(), str.strip() and the `in` substring test.     *)
(* The texts are over the characters U+0001..U+00FF (Latin-1), which is     *)
(* closed under str.lower().                                                *)

\* the characters c of that range with c.lower() # c, and their c.lower()
UpperAlpha == "ABCDEFGHIJKLMNOPQRSTUVWXYZÀÁÂÃÄÅÆÇÈÉÊËÌÍÎÏÐÑÒÓÔÕÖØÙÚÛÜÝÞ"
LowerAlpha == "abcdefghijklmnopqrstuvwxyzàáâãäåæçèéêëìíîïðñòóôõöøùúûüýþ"

\* upper-case letter -> lower-case letter
LowerMap ==
    LET up(i) == SubSeq(UpperAlpha, i, i)
        pos(ch) == CHOOSE i \in 1..Len(UpperAlpha) : up(i) = ch
    IN  [ch \in {up(i) : i \in 1..Len(UpperAlpha)} |-> SubSeq(LowerAlpha, pos(ch), pos(ch))]

LowerChar(ch) == IF ch \in DOMAIN LowerMap THEN LowerMap[ch] ELSE ch

RECURSIVE Lower(_)
Lower(s) ==
    IF \A i \in 1..Len(s) : SubSeq(s, i, i) \notin DOMAIN LowerMap THEN s
    ELSE IF Len(s) = 1 THEN LowerChar(s)
    ELSE Lower(SubSeq(s, 1, Len(s) \div 2)) \o Lower(SubSeq(s, (Len(s) \div 2) + 1, Len(s)))

\* needle in hay
Contains(needle, hay) ==
    \/ Len(needle) = 0
    \/ \E i \in 1..(Len(hay) - Len(needle) + 1) :
           SubSeq(hay, i, i + Len(needle) - 1) = needle

\* the characters of that range that str.strip() removes (str.isspace()):
\* U+0009..U+000D, U+001C..U+0020, U+0085 and U+00A0
WhitespaceChars == "\t\n\f\r  "

Whitespace == {SubSeq(WhitespaceChars, i, i) : i \in 1..Len(WhitespaceChars)}

IsSpace(ch) == ch \in Whitespace

RECURSIVE LStrip(_)
LStrip(s) ==
    IF Len(s) > 0 /\ IsSpace(SubSeq(s, 1, 1)) THEN LStrip(SubSeq(s, 2, Len(s))) ELSE s

RECURSIVE RStrip(_)
RStrip(s) ==
    IF Len(s) > 0 /\ IsSpace(SubSeq(s, Len(s), Len(s)))
    THEN RStrip(SubSeq(s, 1, Len(s) - 1)) ELSE s

Strip(s) == RStrip(LStrip(s))

----------------------------------------------------------------------------
(* Sequences as Python lists and insertion-ordered dicts *)

Range(q) == {q[i] : i \in 1..Len(q)}

\* list.index(x): the first position of x
IndexOf(q, x) == CHOOSE i \in 1..Len(q) : q[i] = x /\ \A j \in 1..(i - 1) : q[j] # x

\* list(self.participants.keys())
ParticipantNames(parts) == [i \in 1..Len(parts) |-> parts[i].agent_name]

\* self.participants[name]
Info(parts, name) == parts[CHOOSE i \in 1..Len(parts) : parts[i].agent_name = name]

\* self.consecutive_turns.get(name, 0)
GetTurns(counters, name) == IF name \in DOMAIN counters THEN counters[name] ELSE 0

----------------------------------------------------------------------------
(* Speaker selection *)

PeopleKeywords == {"who", "person", "people", "team", "member", "employee", "colleague"}
KnowledgeKeywords ==
    {"what", "how", "explain", "documentation", "knowledge", "information", "guide", "tutorial"}

\* any(keyword in message_lower for keyword in [...])
AnyKeyword(keywords, message_lower) == \E k \in keywords : Contains(k, message_lower)

\* variant: the observers are listed too
ActiveParticipantsWithObservers(parts) == ParticipantNames(parts)

\* get_active_participants: the non-observers, in directory order
ActiveParticipants(parts) ==
    ParticipantNames(SelectSeq(parts, LAMBDA p : p.role # "observer"))

\* variant: a participant at its limit is still a candidate
BelowLimitInclusive(parts, counters, active) ==
    SelectSeq(active, LAMBDA n : GetTurns(counters, n) <= Info(parts, n).max_consecutive_turns)

\* the participants below their max_consecutive_turns
BelowLimit(parts, counters, active) ==
    SelectSeq(active, LAMBDA n : GetTurns(counters, n) < Info(parts, n).max_consecutive_turns)

\* for name in active_participants: self.consecutive_turns[name] = 0
ResetTurns(counters, active) ==
    [n \in DOMAIN counters \cup Range(active) |->
        IF n \in Range(active) THEN 0 ELSE counters[n]]

\* max(available, key=priority) / stable sort by priority, reverse=True, then [0]
HighestPriority(parts, avail) ==
    avail[CHOOSE i \in 1..Len(avail) :
            /\ \A j \in 1..Len(avail) :
                   Info(parts, avail[j]).priority <= Info(parts, avail[i]).priority
            /\ \A j \in 1..(i - 1) :
                   Info(parts, avail[j]).priority < Info(parts, avail[i]).priority]

\* variant: the current speaker is not looked at
FallbackPriorityOnly(im, parts, avail, cur) == HighestPriority(parts, avail)

\* "Default: rotate or use priority"
Fallback(im, parts, avail, cur) ==
    IF (im = "sk" => cur # None /\ Len(cur) > 0) /\ cur \in Range(avail)
    THEN avail[(IndexOf(avail, cur) % Len(avail)) + 1]
    ELSE HighestPriority(parts, avail)

\* variant: when nobody is below the limit everybody is a candidate again but
\* the counters are left standing
AvailableNoReset(parts, counters, active) ==
    LET below == BelowLimit(parts, counters, active)
    IN  [avail |-> IF below = <<>> THEN active ELSE below, counters |-> counters]

\* "Check consecutive turn limits": the candidates and the counters after the
\* reset that happens when nobody is below the limit
Available(parts, counters, active) ==
    LET below == BelowLimit(parts, counters, active)
    IN  IF below = <<>>
        THEN [avail |-> active, counters |-> ResetTurns(counters, active)]
        ELSE [avail |-> below, counters |-> counters]

\* variant: the knowledge hints are tried before the people hints
KeywordChoiceKnowledgeFirst(message, avail) ==
    LET message_lower == Lower(message)
        people_agents == SelectSeq(avail, LAMBDA n : Contains("people", Lower(n)))
        knowledge_agents == SelectSeq(avail, LAMBDA n : Contains("knowledge", Lower(n)))
    IN  IF AnyKeyword(KnowledgeKeywords, message_lower) /\ knowledge_agents # <<>>
        THEN knowledge_agents[1]
        ELSE IF AnyKeyword(PeopleKeywords, message_lower) /\ people_agents # <<>>
        THEN people_agents[1]
        ELSE None

\* "Content-based selection": the people hints first, then the knowledge
\* hints; None when no hint decides
KeywordChoice(message, avail) ==
    LET message_lower == Lower(message)
        people_agents == SelectSeq(avail, LAMBDA n : Contains("people", Lower(n)))
        knowledge_agents == SelectSeq(avail, LAMBDA n : Contains("knowledge", Lower(n)))
    IN  IF AnyKeyword(PeopleKeywords, message_lower) /\ people_agents # <<>>
        THEN people_agents[1]
        ELSE IF AnyKeyword(KnowledgeKeywords, message_lower) /\ knowledge_agents # <<>>
        THEN knowledge_agents[1]
        ELSE None

\* _select_next_speaker up to the point where the routing model is awaited.
\* kind: "raise" (no active participant), "done" (speaker chosen),
\*       "llm" (the routing model is asked; avail is the candidate list)
SelectPre(im, cfg, parts, counters, routing, message, cur) ==
    LET active == ActiveParticipants(parts)
        out(k, sp, cnt, av) == [kind |-> k, speaker |-> sp, counters |-> cnt, avail |-> av]
    IN
    IF active = <<>> THEN out("raise", None, counters, <<>>)
    ELSE IF im = "sk" /\ ~cfg.auto_select_speaker THEN out("done", active[1], counters, active)
    ELSE
      LET a == Available(parts, counters, active)
          hinted == KeywordChoice(message, a.avail)
      IN
      IF hinted # None
      THEN out("done", hinted, a.counters, a.avail)
      ELSE IF im = "lc" /\ routing /\ Len(a.avail) > 1
      THEN out("llm", None, a.counters, a.avail)
      ELSE out("done", Fallback(im, parts, a.avail, cur), a.counters, a.avail)

\* The rest of _select_next_speaker once the routing model has answered
\* (answer.ok = FALSE: the call raised and the exception was swallowed).
SelectPost(im, parts, avail, cur, answer) ==
    IF answer.ok /\ Strip(answer.text) \in Range(avail)
    THEN Strip(answer.text)
    ELSE Fallback(im, parts, avail, cur)

----------------------------------------------------------------------------
(* Records *)

\* GroupChatConfig
Config(max_turns, keyword, enable_keyword, auto_select) ==
    [max_turns                  |-> max_turns,
     termination_keyword        |-> keyword,
     enable_termination_keyword |-> enable_keyword,
     auto_select_speaker        |-> auto_select]

\* GroupChatParticipantInfo / GroupChatParticipant
Participant(name, role, priority, max_consecutive_turns) ==
    [agent_name            |-> name,
     role                  |-> role,
     priority              |-> priority,
     max_consecutive_turns |-> max_consecutive_turns]

\* int(os.getenv("SUMMARY_TRANSCRIPT_CHAR_LIMIT", "6000"))
DefaultTranscriptCharLimit == 6000

\* __init__: the fields of a freshly constructed orchestrator.  cleaned is not
\* a field of the object: it remembers that cleanup() has been called on it.
FreshSession(cfg) ==
    [config               |-> cfg,
     participants         |-> <<>>,
     conversation_history |-> <<>>,
     is_initialized       |-> FALSE,
     routing_llm          |-> FALSE,
     summary_llm          |-> FALSE,
     summary_transcript_char_limit |-> DefaultTranscriptCharLimit,
     current_speaker      |-> None,
     turn_count           |-> 0,
     consecutive_turns    |-> <<>>,
     conversation_active  |-> FALSE,
     cleaned              |-> FALSE]

\* AgentMessage / ChatMessageContent as kept in the history
Message(role, content, name, mode) ==
    [role |-> role, content |-> content, name |-> name, mode |-> mode]

\* AgentResponse
Response(content, agent_name, error) ==
    [content |-> content, agent_name |-> agent_name, error |-> error]

\* The coroutine of one call.  pc: "idle" (never called), "routing", "agent",
\* "sleep", "model" (suspended at that await; "model": generate_summary waits
\* for the summary model), "returned", "raised", "cancelled".
\* invoked records what each agent invocation was handed; turn0, hist0 are the
\* turn_count and the history length when the call was entered; skipped lists
\* the speakers a registry miss skipped in this call; agent_failed tells that
\* the call ended on an agent's exception; max_messages and transcript_lines
\* are the argument and the local variable of generate_summary.
IdleCall ==
    [kind            |-> "none",
     pc              |-> "idle",
     sid             |-> Main,
     message         |-> "",
     current_message |-> "",
     next_speaker    |-> None,
     avail           |-> <<>>,
     active          |-> <<>>,
     idx             |-> 0,
     responses       |-> <<>>,
     error           |-> "",
     invoked         |-> <<>>,
     skipped         |-> <<>>,
     asked           |-> <<>>,
     agent_failed    |-> FALSE,
     turn0           |-> 0,
     hist0           |-> 0,
     max_messages    |-> 0,
     transcript_lines |-> <<>>]

NewCall(kind, sid, message, s) ==
    [IdleCall EXCEPT !.kind = kind, !.sid = sid, !.message = message,
                     !.current_message = message,
                     !.turn0 = s.turn_count,
                     !.hist0 = Len(s.conversation_history)]

Suspended(c) == c.pc \in {"routing", "agent", "sleep", "model"}

\* what _select_next_speaker is called with
Asked(message, current_speaker) == [message |-> message, cur |-> current_speaker]

\* what an agent invocation is handed: the message and the history list as it
\* stands at the moment of the call (its length identifies it as long as the
\* history only grows)
Invocation(agent, message, s) ==
    [agent |-> agent, message |-> message, hist_len |-> Len(s.conversation_history),
     turn |-> s.turn_count]

----------------------------------------------------------------------------
(* initialize *)

\* initialize(): builds the routing model and, when a summary deployment is
\* named, the summary model (lc) / the kernel (sk) when the endpoint and the
\* key are set, and marks the session initialized either way.
Initialize(im, e, s) ==
    IF s.is_initialized THEN s
    ELSE [s EXCEPT !.is_initialized = TRUE,
                   !.routing_llm = (im = "lc" /\ e \in {"present", "summary"}),
                   !.summary_llm = (im = "lc" /\ e = "summary")]

----------------------------------------------------------------------------
(* reset_conversation, cleanup (sk) *)

\* variant: the counters survive the reset
ResetConversationKeepsCounters(s) ==
    [s EXCEPT !.conversation_history = <<>>,
              !.current_speaker = None,
              !.turn_count = 0,
              !.conversation_active = FALSE]

\* reset_conversation
ResetConversation(s) ==
    [s EXCEPT !.conversation_history = <<>>,
              !.current_speaker = None,
              !.turn_count = 0,
              !.consecutive_turns =
                  [n \in {s.participants[i].agent_name : i \in 1..Len(s.participants)} |-> 0],
              !.conversation_active = FALSE]

\* cleanup: the directory and the history are emptied; turn_count, the
\* counters and current_speaker stay
CleanupSession(s) ==
    [s EXCEPT !.participants = <<>>,
              !.conversation_history = <<>>,
              !.conversation_active = FALSE,
              !.cleaned = TRUE]

----------------------------------------------------------------------------
(* send_message *)

NoActiveText == "No active participants available"

\* variant: the keyword is compared as written, without lower-casing
ShouldTerminateCaseSensitive(im, s, message) ==
    LET cfg == s.config
        hit == Contains(cfg.termination_keyword, message)
    IN  IF im = "lc"
        THEN \/ s.turn_count >= cfg.max_turns
             \/ cfg.enable_termination_keyword /\ hit
        ELSE /\ cfg.enable_termination_keyword
             /\ (s.turn_count >= cfg.max_turns \/ hit)

\* _should_terminate
ShouldTerminate(im, s, message) ==
    LET cfg == s.config
        hit == Contains(Lower(cfg.termination_keyword), Lower(message))
    IN  IF im = "lc"
        THEN \/ s.turn_count >= cfg.max_turns
             \/ cfg.enable_termination_keyword /\ hit
        ELSE /\ cfg.enable_termination_keyword
             /\ (s.turn_count >= cfg.max_turns \/ hit)

\* variant: the return without the finally clause
FinallyReturnStillActive(s, c) ==
    [s |-> s, c |-> [c EXCEPT !.pc = "returned"]]

\* finally: self.conversation_active = False, then return responses
FinallyReturn(s, c) ==
    [s |-> [s EXCEPT !.conversation_active = FALSE],
     c |-> [c EXCEPT !.pc = "returned"]]

\* finally: self.conversation_active = False, then the exception propagates
FinallyRaise(s, c, error) ==
    [s |-> [s EXCEPT !.conversation_active = FALSE],
     c |-> [c EXCEPT !.pc = "raised", !.error = error]]

\* lc: except Exception -> the error becomes a response of agent "system"
ExceptLC(s, c, text) ==
    FinallyReturn(s, [c EXCEPT !.responses =
                          Append(@, Response("Group chat error: " \o text, "system", TRUE))])

\* variant: the other participants keep their counters
BumpTurnsKeepsOthers(counters, next_speaker) ==
    [n \in DOMAIN counters |-> IF n = next_speaker THEN counters[n] + 1 ELSE counters[n]]

\* "Update consecutive turns"
BumpTurns(counters, next_speaker) ==
    [n \in DOMAIN counters |-> IF n = next_speaker THEN counters[n] + 1 ELSE 0]

\* variant: the loop goes on whatever turn_count is
LoopConditionNoBudget(s) == s.conversation_active

\* variant: the loop goes on whatever conversation_active is
LoopConditionIgnoresActive(s) == s.turn_count < s.config.max_turns

\* variant: one turn more than the budget
LoopConditionOffByOne(s) == s.turn_count <= s.config.max_turns /\ s.conversation_active

\* while self.turn_count < self.config.max_turns and self.conversation_active
LoopCondition(s) == s.turn_count < s.config.max_turns /\ s.conversation_active

RECURSIVE LoopLC(_, _, _)
RECURSIVE AfterSelectLC(_, _, _, _)

\* variant: a registry miss ends the loop
AfterSelectLCStopsAtMiss(reg, s, c, next_speaker) ==
    LET s1 == [s EXCEPT !.current_speaker = next_speaker,
                        !.consecutive_turns = BumpTurns(@, next_speaker)]
    IN  IF next_speaker \in reg
        THEN [s |-> s1,
              c |-> [c EXCEPT !.pc = "agent", !.next_speaker = next_speaker,
                              !.invoked = Append(@, Invocation(next_speaker,
                                                               c.current_message, s1))]]
        ELSE FinallyReturn(s1, [c EXCEPT !.skipped = Append(@, next_speaker)])

\* lc: from "Update consecutive turns" to the await of agent.process_message;
\* a registry miss logs and continues with the next iteration
AfterSelectLC(reg, s, c, next_speaker) ==
    LET s1 == [s EXCEPT !.current_speaker = next_speaker,
                        !.consecutive_turns = BumpTurns(@, next_speaker)]
    IN  IF next_speaker \in reg
        THEN [s |-> s1,
              c |-> [c EXCEPT !.pc = "agent", !.next_speaker = next_speaker,
                              !.invoked = Append(@, Invocation(next_speaker,
                                                               c.current_message, s1))]]
        ELSE LoopLC(reg, s1, [c EXCEPT !.skipped = Append(@, next_speaker)])

\* lc: the while loop from its head to the next await (or to the return)
LoopLC(reg, s, c0) ==
    IF LoopCondition(s)
    THEN LET s1 == [s EXCEPT !.turn_count = @ + 1]
             pre == SelectPre("lc", s1.config, s1.participants, s1.consecutive_turns,
                              s1.routing_llm, c0.current_message, s1.current_speaker)
             s2 == [s1 EXCEPT !.consecutive_turns = pre.counters]
             c == [c0 EXCEPT !.asked = Append(@, Asked(c0.current_message,
                                                       s1.current_speaker))]
         IN  CASE pre.kind = "raise" -> ExceptLC(s2, c, NoActiveText)
               [] pre.kind = "llm"   -> [s |-> s2,
                                         c |-> [c EXCEPT !.pc = "routing",
                                                         !.avail = pre.avail]]
               [] OTHER              -> AfterSelectLC(reg, s2, c, pre.speaker)
    ELSE FinallyReturn(s, c0)

\* sk: the while loop from its head to the await of agent.get_response
LoopSK(s, c0) ==
    IF LoopCondition(s)
    THEN LET pre == SelectPre("sk", s.config, s.participants, s.consecutive_turns,
                              FALSE, c0.current_message, s.current_speaker)
             c == [c0 EXCEPT !.asked = Append(@, Asked(c0.current_message,
                                                       s.current_speaker))]
             next_speaker == pre.speaker
             counters1 == [pre.counters EXCEPT ![next_speaker] = @ + 1]
             s1 == [s EXCEPT !.current_speaker = next_speaker,
                             !.turn_count = @ + 1,
                             !.consecutive_turns =
                                 [n \in DOMAIN counters1 |->
                                     IF n # next_speaker THEN 0 ELSE counters1[n]]]
         IN  IF pre.kind = "raise"
             THEN FinallyRaise(s, c, "no_active")
             ELSE [s |-> s1,
                   c |-> [c EXCEPT !.pc = "agent", !.next_speaker = next_speaker,
                                   !.invoked = Append(@, Invocation(next_speaker,
                                                                    c.current_message, s1))]]
    ELSE FinallyReturn(s, c0)

Loop(im, reg, s, c) == IF im = "lc" THEN LoopLC(reg, s, c) ELSE LoopSK(s, c)

\* sender or "User" (lc) / `if sender:` name=sender, else no name (sk):
\* None and the empty string are both falsy
SenderLabel(im, sender) ==
    IF sender \in {None, ""} THEN (IF im = "lc" THEN "User" ELSE None) ELSE sender

\* variant: the user message is recorded before the directory is looked at
SendEnterRecordsFirst(im, e, reg, s0, c, sid, message, sender) ==
    LET s == [Initialize(im, e, s0) EXCEPT
                  !.conversation_history =
                      Append(@, Message("user", message, SenderLabel(im, sender), ""))]
        c0 == NewCall("send", sid, message, s)
    IN  IF s.participants = <<>>
        THEN [s |-> s, c |-> [c0 EXCEPT !.pc = "raised", !.error = "no_participants"]]
        ELSE Loop(im, reg, [s EXCEPT !.conversation_active = TRUE], c0)

\* send_message from its entry to the first await
SendEnter(im, e, reg, s0, c, sid, message, sender) ==
    LET s == Initialize(im, e, s0)
        c0 == NewCall("send", sid, message, s)
    IN  IF s.participants = <<>>
        THEN [s |-> s, c |-> [c0 EXCEPT !.pc = "raised", !.error = "no_participants"]]
        ELSE Loop(im, reg,
                  [s EXCEPT !.conversation_active = TRUE,
                            !.conversation_history =
                                Append(@, Message("user", message,
                                                  SenderLabel(im, sender), ""))],
                  c0)

\* sk: str(response_content) if response_content else "No response"
ReplyContent(im, reply) == IF im = "sk" /\ Len(reply) = 0 THEN "No response" ELSE reply

\* variant: the next turn works on the caller's message again
SendAgentDoneKeepsMessage(im, s, c, reply) ==
    LET content == ReplyContent(im, reply)
        s1 == [s EXCEPT !.conversation_history =
                            Append(@, Message("assistant", content, c.next_speaker, ""))]
        c1 == [c EXCEPT !.responses = Append(@, Response(content, c.next_speaker, FALSE))]
    IN  IF ShouldTerminate(im, s1, content)
        THEN FinallyReturn(s1, c1)
        ELSE [s |-> s1, c |-> [c1 EXCEPT !.pc = "sleep"]]

\* send_message from the return of the agent to the next await.
\* sk line 301 keeps self.chat_history: the thread of the response carries
\* no chat_history attribute, so the hasattr test takes the else branch.
SendAgentDone(im, s, c, reply) ==
    LET content == ReplyContent(im, reply)
        s1 == [s EXCEPT !.conversation_history =
                            Append(@, Message("assistant", content, c.next_speaker, ""))]
        c1 == [c EXCEPT !.responses = Append(@, Response(content, c.next_speaker, FALSE))]
    IN  IF ShouldTerminate(im, s1, content)
        THEN FinallyReturn(s1, c1)
        ELSE [s |-> s1, c |-> [c1 EXCEPT !.current_message = content, !.pc = "sleep"]]

\* variant: the error response is recorded and the loop goes on
SendAgentRaisedContinues(im, s, c, text) ==
    [s |-> s,
     c |-> [c EXCEPT !.agent_failed = TRUE,
                     !.responses = Append(@, Response("I encountered an error: " \o text,
                                                      c.next_speaker, TRUE)),
                     !.pc = "sleep"]]

\* variant: the error response is written to the history as well
SendAgentRaisedRecorded(im, s, c, text) ==
    LET c1 == [c EXCEPT !.agent_failed = TRUE]
        s1 == [s EXCEPT !.conversation_history =
                            Append(@, Message("assistant", text, c.next_speaker, ""))]
    IN  IF im = "lc"
        THEN ExceptLC(s1, c1, text)
        ELSE FinallyReturn(s1, [c1 EXCEPT !.responses =
                                    Append(@, Response("I encountered an error: " \o text,
                                                       c.next_speaker, TRUE))])

\* send_message when the agent raises
SendAgentRaised(im, s, c, text) ==
    LET c1 == [c EXCEPT !.agent_failed = TRUE]
    IN  IF im = "lc"
        THEN ExceptLC(s, c1, text)
        ELSE FinallyReturn(s, [c1 EXCEPT !.responses =
                                   Append(@, Response("I encountered an error: " \o text,
                                                      c.next_speaker, TRUE))])

----------------------------------------------------------------------------
(* broadcast_message *)

RECURSIVE BroadcastNext(_, _, _, _)

\* the for loop over the active participants (the list made at the entry)
\* from position c.idx to the next await (or to the return); lc skips a name
\* the registry does not resolve; sk looks the name up in the directory,
\* outside the try: the KeyError of a name removed meanwhile ends the call
BroadcastNext(im, reg, s, c) ==
    IF c.idx > Len(c.active)
    THEN [s |-> s, c |-> [c EXCEPT !.pc = "returned"]]
    ELSE LET agent_name == c.active[c.idx]
         IN  IF im = "lc" /\ agent_name \notin reg
             THEN BroadcastNext(im, reg, s, [c EXCEPT !.idx = @ + 1,
                                                    !.skipped = Append(@, agent_name)])
             ELSE IF im = "sk" /\ agent_name \notin Range(ParticipantNames(s.participants))
             THEN [s |-> s, c |-> [c EXCEPT !.pc = "raised", !.error = "key_error"]]
             ELSE [s |-> s,
                   c |-> [c EXCEPT !.pc = "agent", !.next_speaker = agent_name,
                                   !.invoked = Append(@, Invocation(agent_name,
                                                                    c.message, s))]]

BroadcastMode(im) == IF im = "lc" THEN "broadcast" ELSE ""

\* variant: the round marks the conversation active, as send_message does
BroadcastEnterActivates(im, e, reg, s0, c, sid, message, sender) ==
    LET s == Initialize(im, e, s0)
        c0 == NewCall("broadcast", sid, message, s)
        active == ActiveParticipants(s.participants)
    IN  IF active = <<>>
        THEN [s |-> s, c |-> [c0 EXCEPT !.pc = "raised", !.error = "no_active"]]
        ELSE BroadcastNext(im, reg,
                 [s EXCEPT !.conversation_active = TRUE,
                           !.conversation_history =
                               Append(@, Message("user", message,
                                                 SenderLabel(im, sender), BroadcastMode(im))),
                           !.turn_count = @ + 1],
                 [c0 EXCEPT !.active = active, !.idx = 1])

\* broadcast_message from its entry to the first await
BroadcastEnter(im, e, reg, s0, c, sid, message, sender) ==
    LET s == Initialize(im, e, s0)
        c0 == NewCall("broadcast", sid, message, s)
        active == ActiveParticipants(s.participants)
    IN  IF active = <<>>
        THEN [s |-> s, c |-> [c0 EXCEPT !.pc = "raised", !.error = "no_active"]]
        ELSE BroadcastNext(im, reg,
                 [s EXCEPT !.conversation_history =
                               Append(@, Message("user", message,
                                                 SenderLabel(im, sender), BroadcastMode(im))),
                           !.turn_count = @ + 1],
                 [c0 EXCEPT !.active = active, !.idx = 1])

\* broadcast_message from the return of one agent to the next await
BroadcastAgentDone(im, reg, s, c, reply) ==
    LET content == ReplyContent(im, reply)
    IN  BroadcastNext(im, reg,
            [s EXCEPT !.conversation_history =
                          Append(@, Message("assistant", content, c.next_speaker,
                                            BroadcastMode(im)))],
            [c EXCEPT !.responses = Append(@, Response(content, c.next_speaker, FALSE)),
                      !.idx = @ + 1])

\* variant: a failing agent leaves no response behind
BroadcastAgentRaisedSilent(im, reg, s, c, text) ==
    BroadcastNext(im, reg, s, [c EXCEPT !.idx = @ + 1])

\* broadcast_message when one agent raises: an error response, no history entry
BroadcastAgentRaised(im, reg, s, c, text) ==
    BroadcastNext(im, reg, s,
        [c EXCEPT !.responses =
                      Append(@, Response("Error from " \o c.next_speaker \o ": " \o text,
                                         c.next_speaker, TRUE)),
                  !.idx = @ + 1])

----------------------------------------------------------------------------
(* add_participant *)

\* variant: the entry is appended even when the key exists
PutParticipantTwice(parts, info) == Append(parts, info)

\* self.participants[name] = info: a new key goes last, an existing key keeps
\* its place
PutParticipant(parts, info) ==
    IF \E i \in 1..Len(parts) : parts[i].agent_name = info.agent_name
    THEN [i \in 1..Len(parts) |->
             IF parts[i].agent_name = info.agent_name THEN info ELSE parts[i]]
    ELSE Append(parts, info)

\* self.consecutive_turns[name] = 0
PutTurns(counters, name) ==
    [n \in DOMAIN counters \cup {name} |-> IF n = name THEN 0 ELSE counters[n]]

\* variant: the removed participant stays the current speaker
RemoveParticipantKeepsSpeaker(s, name) ==
    IF \E i \in 1..Len(s.participants) : s.participants[i].agent_name = name
    THEN [ok |-> TRUE,
          s  |-> [s EXCEPT !.participants = SelectSeq(@, LAMBDA p : p.agent_name # name),
                           !.consecutive_turns = [n \in DOMAIN @ \ {name} |-> @[n]]]]
    ELSE [ok |-> FALSE, s |-> s]

\* remove_participant (sk); ok is what it returns
RemoveParticipantResult(s, name) ==
    IF \E i \in 1..Len(s.participants) : s.participants[i].agent_name = name
    THEN [ok |-> TRUE,
          s  |-> [s EXCEPT !.participants = SelectSeq(@, LAMBDA p : p.agent_name # name),
                           !.consecutive_turns = [n \in DOMAIN @ \ {name} |-> @[n]],
                           !.current_speaker = IF @ = name THEN None ELSE @]]
    ELSE [ok |-> FALSE, s |-> s]

\* add_participant; ok = FALSE: it raised (lc: the name is not in the registry)
AddParticipantResult(im, e, reg, s, info) ==
    IF im = "lc" /\ info.agent_name \notin reg
    THEN [ok |-> FALSE, s |-> s]
    ELSE LET s1 == IF im = "sk" THEN Initialize(im, e, s) ELSE s
         IN  [ok |-> TRUE,
              s  |-> [s1 EXCEPT !.participants = PutParticipant(@, info),
                                !.consecutive_turns = PutTurns(@, info.agent_name)]]

----------------------------------------------------------------------------
(* get_conversation_summary *)

\* the statistics get_conversation_summary reports
GetConversationSummary(s) ==
    [total_turns         |-> s.turn_count,
     participants        |-> ParticipantNames(s.participants),
     active_participants |-> ActiveParticipants(s.participants),
     conversation_active |-> s.conversation_active,
     message_count       |-> Len(s.conversation_history)]

----------------------------------------------------------------------------
(* generate_summary (lc) *)

\* str(n) of a natural number
Digits == "0123456789"
RECURSIVE ToStr(_)
ToStr(n) ==
    IF n < 10 THEN SubSeq(Digits, n + 1, n + 1)
    ELSE ToStr(n \div 10) \o SubSeq(Digits, (n % 10) + 1, (n % 10) + 1)

\* sep.join(items)
RECURSIVE Join(_, _)
Join(sep, items) ==
    IF Len(items) = 0 THEN ""
    ELSE IF Len(items) = 1 THEN items[1]
    ELSE items[1] \o sep \o Join(sep, Tail(items))

\* s.replace("\n", " ")
RECURSIVE NewlinesToSpaces(_)
NewlinesToSpaces(s) ==
    IF \A i \in 1..Len(s) : SubSeq(s, i, i) # "\n" THEN s
    ELSE IF Len(s) = 1 THEN (IF s = "\n" THEN " " ELSE s)
    ELSE NewlinesToSpaces(SubSeq(s, 1, Len(s) \div 2))
             \o NewlinesToSpaces(SubSeq(s, (Len(s) \div 2) + 1, Len(s)))

\* s[:n]
Take(s, n) == SubSeq(s, 1, IF Len(s) < n THEN Len(s) ELSE n)

\* q[-n:]: the last n items for n > 0; for n = 0 the slice is q[0:], the whole
\* list; for n < 0 it is q[-n:], the list without its first -n items
LastN(q, n) ==
    IF n > 0
    THEN (IF Len(q) <= n THEN q ELSE SubSeq(q, Len(q) - n + 1, Len(q)))
    ELSE (IF Len(q) <= -n THEN <<>> ELSE SubSeq(q, 1 - n, Len(q)))

SnippetCap == 1000
SnippetKeep == 997
ExcerptCap == 1500
DefaultMaxMessages == 120

\* one line of the transcript: "<agent or sender or role>: <snippet>"
TranscriptLine(msg) ==
    LET role == IF Len(msg.name) > 0 /\ msg.name # None THEN msg.name ELSE msg.role
        stripped == NewlinesToSpaces(Strip(msg.content))
        snippet == IF Len(stripped) > SnippetCap
                   THEN Take(stripped, SnippetKeep) \o "..."
                   ELSE stripped
    IN  role \o ": " \o snippet

RECURSIVE TranscriptLines(_, _, _, _)

\* variant: the separators are not counted
TranscriptLinesNoSeparators(relevant, i, current_chars, limit) ==
    IF i > Len(relevant) THEN <<>>
    ELSE LET line == TranscriptLine(relevant[i])
         IN  IF current_chars + Len(line) > limit THEN <<>>
             ELSE <<line>> \o TranscriptLines(relevant, i + 1,
                                              current_chars + Len(line), limit)

\* the for loop over the relevant messages from position i on: it stops at the
\* first line that would take the transcript over the limit
TranscriptLines(relevant, i, current_chars, limit) ==
    IF i > Len(relevant) THEN <<>>
    ELSE LET line == TranscriptLine(relevant[i])
         IN  IF current_chars + Len(line) > limit THEN <<>>
             ELSE <<line>> \o TranscriptLines(relevant, i + 1,
                                              current_chars + Len(line) + 1, limit)

Transcript(s, max_messages) ==
    Join("\n", TranscriptLines(LastN(s.conversation_history, max_messages), 1, 0,
                               s.summary_transcript_char_limit))

\* variant: the template without the turn count
SummaryTemplateNoTurns(label, s, transcript) ==
    "Conversation Summary (" \o label \o ")\n"
        \o "Participants: " \o Join(", ", ParticipantNames(s.participants)) \o "\n"
        \o "Recent Excerpt (truncated):\n" \o Take(transcript, ExcerptCap)

\* the text returned without a model's help; label: "heuristic" or "fallback"
SummaryTemplate(label, s, transcript) ==
    "Conversation Summary (" \o label \o ")\n"
        \o "Participants: " \o Join(", ", ParticipantNames(s.participants)) \o "\n"
        \o "Turns: " \o ToStr(s.turn_count) \o "\n"
        \o "Recent Excerpt (truncated):\n" \o Take(transcript, ExcerptCap)

NoConversationText == "No conversation yet."

\* variant: an empty history is summarized like any other
SummaryPreNoEmptyCase(s, max_messages) ==
    IF ~(s.summary_llm \/ s.routing_llm)
    THEN [kind |-> "done",
          text |-> SummaryTemplate("heuristic", s, Transcript(s, max_messages))]
    ELSE [kind |-> "llm", text |-> Transcript(s, max_messages)]

\* generate_summary up to the point where the model is awaited.
\* kind: "done" (text is returned) or "llm" (the model is asked)
SummaryPre(s, max_messages) ==
    IF s.conversation_history = <<>>
    THEN [kind |-> "done", text |-> NoConversationText]
    ELSE IF ~(s.summary_llm \/ s.routing_llm)
    THEN [kind |-> "done",
          text |-> SummaryTemplate("heuristic", s, Transcript(s, max_messages))]
    ELSE [kind |-> "llm", text |-> Transcript(s, max_messages)]

\* variant: the model's failure comes back as an empty text
SummaryPostNoFallback(s, transcript, answer) ==
    IF answer.ok THEN Strip(answer.text) ELSE ""

\* the rest of generate_summary once the model has answered (answer.ok =
\* FALSE: it raised)
SummaryPost(s, transcript, answer) ==
    IF answer.ok THEN Strip(answer.text)
    ELSE SummaryTemplate("fallback", s, transcript)

----------------------------------------------------------------------------
(* The state machine *)

\* lc never reads auto_select_speaker, so one value is enough there
Configs(im) ==
    {Config(m, DefaultKeyword, k, a) :
        m \in MaxTurnsChoices, k \in BOOLEAN,
        a \in (IF im = "sk" THEN BOOLEAN ELSE {TRUE})}

Envs(im) == {"absent", "present"}

SecondConfig == Config(3, DefaultKeyword, TRUE, TRUE)

\* what add_participant is called with, in this order
Roster ==
    <<Participant("Analyst", "observer", 1, 1),
      Participant("people_x", "participant", 1, 1),
      Participant("knowledge_y", "facilitator", 2, 2)>>

Senders == {None, ""}

\* what the routing model answers: a candidate's name, a sentence that merely
\* contains one, or an exception (ok = FALSE)
RoutingAnswers ==
    {[ok |-> TRUE, text |-> "people_x"],
     [ok |-> TRUE, text |-> "ask knowledge_y"],
     [ok |-> FALSE, text |-> ""]}

\* the agents that unregister_agent is called for
Vanishing == {"people_x", "knowledge_y"}

NoSel == [applied |-> FALSE, waiting |-> FALSE]

\* the answer of a model that is not asked
NoAnswer == [ok |-> FALSE, text |-> "<not asked>"]

\* what `last` holds: the operation, its session, whether it returned normally,
\* the session as it was before (kept for the operations whose effect is
\* compared with it), the text it returned (for add_participant: what it was
\* called with), and what became of the model it asked ("none": no model was
\* asked); for generate_summary also max_messages and the transcript lines
NoBefore == <<>>
Did(op, sid, ok, before, out) ==
    [op |-> op, sid |-> sid, ok |-> ok, before |-> before, out |-> out, model |-> "none",
     max_messages |-> 0, lines |-> <<>>]
NoLast == Did("none", Main, TRUE, NoBefore, "")

Init ==
    /\ impl \in Impls
    /\ env \in Envs(impl)
    /\ registry = AgentNames
    /\ \E cfg \in Configs(impl) :
           sess = [sid \in Sessions |->
                      FreshSession(IF sid = Main THEN cfg ELSE SecondConfig)]
    /\ call = [c \in Calls |-> IdleCall]
    /\ sel = NoSel
    /\ last = NoLast

\* variant: the history list is one object shared by every orchestrator
PutSharedHistory(c, sid, r) ==
    /\ sess' = [x \in Sessions |->
                   IF x = sid THEN r.s
                   ELSE [sess[x] EXCEPT !.conversation_history = r.s.conversation_history]]
    /\ call' = [call EXCEPT ![c] = r.c]
    /\ last' = IF r.c.pc = "raised"
               THEN Did("raise", sid, FALSE, sess[sid], r.c.error)
               ELSE Did("call", sid, TRUE, NoBefore, "")
    /\ UNCHANGED <<impl, env, registry, sel>>

\* a step of call c on session sid: the session and the call record change
Put(c, sid, r) ==
    /\ sess' = [sess EXCEPT ![sid] = r.s]
    /\ call' = [call EXCEPT ![c] = r.c]
    /\ last' = IF r.c.pc = "raised"
               THEN Did("raise", sid, FALSE, sess[sid], r.c.error)
               ELSE Did("call", sid, TRUE, NoBefore, "")
    /\ UNCHANGED <<impl, env, registry, sel>>

\* No call is suspended on session sid: the state between two requests of a
\* client that awaits each response before it sends the next request.  The
\* code has no such guard (no lock, no queue: every operation runs whenever it
\* is called); the specifications of one request at a time put this in front
\* of the operations they let happen, those of concurrent requests do not.
NoCallInFlight(sid) == \A c \in Calls : Suspended(call[c]) => call[c].sid # sid

CanStart(c, sid) ==
    /\ ~Suspended(call[c])
    /\ Len(sess[sid].conversation_history) < MaxHistory

SendStart(c, sid, message, sender) ==
    /\ CanStart(c, sid)
    /\ Put(c, sid, SendEnter(impl, env, registry, sess[sid], call[c], sid, message, sender))

\* the routing model answers.  current_speaker is the selector's parameter: the
\* value send_message passed when it called the selector, before the await
RoutingDone(c, answer) ==
    /\ call[c].kind = "send" /\ call[c].pc = "routing"
    /\ LET sid == call[c].sid
           s == sess[sid]
           current_speaker == call[c].asked[Len(call[c].asked)].cur
       IN  Put(c, sid, AfterSelectLC(registry, s, call[c],
                           SelectPost(impl, s.participants, call[c].avail,
                                      current_speaker, answer)))

SendAgentReturn(c, reply) ==
    /\ call[c].kind = "send" /\ call[c].pc = "agent"
    /\ Put(c, call[c].sid, SendAgentDone(impl, sess[call[c].sid], call[c], reply))

SendAgentFail(c) ==
    /\ call[c].kind = "send" /\ call[c].pc = "agent"
    /\ Put(c, call[c].sid, SendAgentRaised(impl, sess[call[c].sid], call[c], ErrorText))

\* asyncio.sleep(response_wait_time) is over: back to the head of the loop
SleepDone(c) ==
    /\ call[c].kind = "send" /\ call[c].pc = "sleep"
    /\ Put(c, call[c].sid, Loop(impl, registry, sess[call[c].sid], call[c]))

\* the task is cancelled while send_message is suspended: CancelledError is
\* not an Exception, so only the finally clause runs
SendCancel(c) ==
    /\ call[c].kind = "send" /\ Suspended(call[c])
    /\ Put(c, call[c].sid,
           [s |-> [sess[call[c].sid] EXCEPT !.conversation_active = FALSE],
            c |-> [call[c] EXCEPT !.pc = "cancelled"]])

BroadcastStart(c, sid, message, sender) ==
    /\ CanStart(c, sid)
    /\ Put(c, sid, BroadcastEnter(impl, env, registry, sess[sid], call[c], sid,
                                  message, sender))

BroadcastAgentReturn(c, reply) ==
    /\ call[c].kind = "broadcast" /\ call[c].pc = "agent"
    /\ Put(c, call[c].sid,
           BroadcastAgentDone(impl, registry, sess[call[c].sid], call[c], reply))

BroadcastAgentFail(c) ==
    /\ call[c].kind = "broadcast" /\ call[c].pc = "agent"
    /\ Put(c, call[c].sid,
           BroadcastAgentRaised(impl, registry, sess[call[c].sid], call[c], ErrorText))

\* broadcast_message has no finally clause: cancellation just unwinds
BroadcastCancel(c) ==
    /\ call[c].kind = "broadcast" /\ Suspended(call[c])
    /\ call' = [call EXCEPT ![c].pc = "cancelled"]
    /\ last' = Did("call", call[c].sid, TRUE, NoBefore, "")
    /\ UNCHANGED <<impl, env, registry, sess, sel>>

\* the roster entry that is added next to a session
NextInRoster(sid) ==
    IF Len(sess[sid].participants) < Len(Roster)
    THEN {Roster[Len(sess[sid].participants) + 1]}
    ELSE {}

AddParticipant(sid, info) ==
    /\ LET r == AddParticipantResult(impl, env, registry, sess[sid], info)
       IN  /\ sess' = [sess EXCEPT ![sid] = r.s]
           /\ last' = Did("add", sid, r.ok, sess[sid], info)
    /\ UNCHANGED <<impl, env, registry, call, sel>>

\* remove_participant() (sk)
RemoveParticipant(sid, name) ==
    /\ impl = "sk"
    /\ LET r == RemoveParticipantResult(sess[sid], name)
       IN  /\ sess' = [sess EXCEPT ![sid] = r.s]
           /\ last' = Did("remove", sid, r.ok, sess[sid], name)
    /\ UNCHANGED <<impl, env, registry, call, sel>>

\* initialize() called by the application itself
InitializeCall(sid) ==
    /\ sess' = [sess EXCEPT ![sid] = Initialize(impl, env, @)]
    /\ last' = Did("initialize", sid, TRUE, sess[sid], "")
    /\ UNCHANGED <<impl, env, registry, call, sel>>

\* get_conversation_text (sk): one "speaker: content" line per message, the
\* speaker being the message's name attribute (None when it was not given)
ConversationLine(m) == (IF m.name = None THEN "None" ELSE m.name) \o ": " \o m.content

ConversationText(s) ==
    IF s.conversation_history = <<>> THEN NoConversationText
    ELSE Join("\n", [i \in 1..Len(s.conversation_history) |->
                        ConversationLine(s.conversation_history[i])])

\* get_conversation_text() (sk)
GetConversationText(sid) ==
    /\ impl = "sk"
    /\ last' = Did("text", sid, TRUE, sess[sid], ConversationText(sess[sid]))
    /\ UNCHANGED <<impl, env, registry, sess, call, sel>>

\* generate_summary (lc) from its entry to the await of the model: the
\* transcript is built; on an empty history, or without a model, the call
\* returns at once
SummaryStart(c, sid, max_messages) ==
    /\ impl = "lc"
    /\ ~Suspended(call[c])
    /\ LET s == sess[sid]
           pre == SummaryPre(s, max_messages)
           lines == IF s.conversation_history = <<>> THEN <<>>
                    ELSE TranscriptLines(LastN(s.conversation_history, max_messages), 1, 0,
                                         s.summary_transcript_char_limit)
           c0 == [NewCall("summary", sid, "", s) EXCEPT !.max_messages = max_messages,
                                                        !.transcript_lines = lines]
       IN  IF pre.kind = "done"
           THEN /\ call' = [call EXCEPT ![c] = [c0 EXCEPT !.pc = "returned"]]
                /\ last' = [Did("summary", sid, TRUE, s, pre.text)
                               EXCEPT !.max_messages = max_messages, !.lines = lines]
           ELSE /\ call' = [call EXCEPT ![c] = [c0 EXCEPT !.pc = "model"]]
                /\ last' = Did("call", sid, TRUE, NoBefore, "")
    /\ UNCHANGED <<impl, env, registry, sess, sel>>

\* generate_summary once the model has answered or raised: the fallback text
\* is made of the transcript built before the await and of the participants
\* and the turn count as they are now.  `last.before` is the session now.
SummaryDone(c, answer) ==
    /\ call[c].kind = "summary" /\ call[c].pc = "model"
    /\ LET sid == call[c].sid
           s == sess[sid]
           transcript == Join("\n", call[c].transcript_lines)
       IN  last' = [Did("summary", sid, TRUE, s, SummaryPost(s, transcript, answer))
                       EXCEPT !.model = IF answer.ok THEN "answered" ELSE "failed",
                              !.max_messages = call[c].max_messages,
                              !.lines = call[c].transcript_lines]
    /\ call' = [call EXCEPT ![c].pc = "returned"]
    /\ UNCHANGED <<impl, env, registry, sess, sel>>

\* reset_conversation() (sk)
Reset(sid) ==
    /\ impl = "sk"
    /\ sess' = [sess EXCEPT ![sid] = ResetConversation(@)]
    /\ last' = Did("reset", sid, TRUE, sess[sid], "")
    /\ UNCHANGED <<impl, env, registry, call, sel>>

\* cleanup() (sk)
Cleanup(sid) ==
    /\ impl = "sk"
    /\ sess' = [sess EXCEPT ![sid] = CleanupSession(@)]
    /\ last' = Did("cleanup", sid, TRUE, sess[sid], "")
    /\ UNCHANGED <<impl, env, registry, call, sel>>

\* AgentRegistry.register_agent: the agent is created and stored under its
\* name (a factory for its type is registered)
RegisterAgent(name) ==
    /\ impl = "lc"
    /\ registry' = registry \cup {name}
    /\ last' = Did("register", Main, TRUE, NoBefore, name)
    /\ UNCHANGED <<impl, env, sess, call, sel>>

\* AgentRegistry.unregister_agent: the agent vanishes, possibly mid-call; a
\* name that is not registered is left alone
UnregisterAgent(name) ==
    /\ impl = "lc"
    /\ registry' = registry \ {name}
    /\ last' = Did("unregister", Main, TRUE, NoBefore, name)
    /\ UNCHANGED <<impl, env, sess, call, sel>>

\* one caller, one session: the calls follow one another
Next ==
    \/ \E m \in UserMessages, sd \in Senders : SendStart("c1", Main, m, sd)
    \/ \E a \in RoutingAnswers : RoutingDone("c1", a)
    \/ \E r \in Replies : SendAgentReturn("c1", r)
    \/ SendAgentFail("c1")
    \/ SleepDone("c1")
    \/ SendCancel("c1")
    \/ \E m \in UserMessages, sd \in Senders : BroadcastStart("c1", Main, m, sd)
    \/ \E r \in Replies : BroadcastAgentReturn("c1", r)
    \/ BroadcastAgentFail("c1")
    \/ BroadcastCancel("c1")
    \/ NoCallInFlight(Main) /\ \E info \in NextInRoster(Main) : AddParticipant(Main, info)
    \/ \E n \in Vanishing \cap registry : UnregisterAgent(n)
    \/ \E n \in Vanishing \ registry : RegisterAgent(n)
    \/ ~sess[Main].is_initialized /\ InitializeCall(Main)

Spec == Init /\ [][Next]_vars

\* the LangChain implementation alone
InitLC == Init /\ impl = "lc"
SpecLC == InitLC /\ [][Next]_vars

\* one configuration, with reset_conversation and cleanup among the operations
LifeConfig == Config(2, DefaultKeyword, TRUE, TRUE)

InitLife == Init /\ sess[Main].config = LifeConfig

NextLife ==
    \/ Next
    \/ NoCallInFlight(Main) /\ Reset(Main)
    \/ NoCallInFlight(Main) /\ ~sess[Main].cleaned /\ Cleanup(Main)

SpecLife == InitLife /\ [][NextLife]_vars

\* the LangChain implementation with one configuration and generate_summary
\* among the operations; the summary deployment may be named
SummaryMaxMessages == {0, 1, DefaultMaxMessages}

SummaryMessages == {"status", " Who\nleads? "}

\* what the summary model does: a text, or an exception (ok = FALSE)
SummaryAnswers ==
    {[ok |-> TRUE, text |-> " **Objective**: status\n"],
     [ok |-> FALSE, text |-> ""]}

InitSummary ==
    /\ impl = "lc"
    /\ env \in {"absent", "present", "summary"}
    /\ registry = AgentNames
    /\ sess = [sid \in Sessions |->
                  FreshSession(IF sid = Main THEN LifeConfig ELSE SecondConfig)]
    /\ call = [c \in Calls |-> IdleCall]
    /\ sel = NoSel
    /\ last = NoLast

\* the calls that build the histories to summarize: no cancellation, no
\* unregistration
NextSummary ==
    \/ \E m \in SummaryMessages, sd \in Senders : SendStart("c1", Main, m, sd)
    \/ \E a \in RoutingAnswers : RoutingDone("c1", a)
    \/ \E r \in Replies : SendAgentReturn("c1", r)
    \/ SendAgentFail("c1")
    \/ SleepDone("c1")
    \/ \E m \in SummaryMessages, sd \in Senders : BroadcastStart("c1", Main, m, sd)
    \/ \E r \in Replies : BroadcastAgentReturn("c1", r)
    \/ BroadcastAgentFail("c1")
    \/ (NoCallInFlight(Main) \/ call["c1"].kind = "summary")
           /\ \E info \in NextInRoster(Main) : AddParticipant(Main, info)
    \/ ~sess[Main].is_initialized /\ InitializeCall(Main)
    \/ \E n \in SummaryMaxMessages : SummaryStart("c1", Main, n)
    \/ \E a \in SummaryAnswers : SummaryDone("c1", a)

SpecSummary == InitSummary /\ [][NextSummary]_vars

\* generate_summary on its own (lc): the history and the character limit
\* (SUMMARY_TRANSCRIPT_CHAR_LIMIT) are drawn, a message may be as long as the
\* snippet cap or one character longer
RECURSIVE Repeat(_, _)
Repeat(s, n) ==
    IF n = 0 THEN ""
    ELSE IF n % 2 = 0 THEN LET h == Repeat(s, n \div 2) IN h \o h
    ELSE s \o Repeat(s, n - 1)

TranscriptUserTexts == {"status", " Who\nleads? ", Repeat("x", SnippetCap + 1)}

TranscriptReplies == {"ok", Repeat("y", SnippetCap)}

TranscriptLimits == {DefaultTranscriptCharLimit, 24}

TranscriptMaxMessages == {-1, 0, 2, DefaultMaxMessages}

\* the orchestrator as constructed: nothing said yet, the character limit as
\* the environment gives it
InitTranscript ==
    /\ impl = "lc"
    /\ env \in {"absent", "present"}
    /\ registry = AgentNames
    /\ call = [c \in Calls |-> IdleCall]
    /\ sel = NoSel
    /\ last = NoLast
    /\ \E limit \in TranscriptLimits :
           sess = [sid \in Sessions |->
                      IF sid = Main
                      THEN [FreshSession(LifeConfig) EXCEPT
                               !.summary_transcript_char_limit = limit]
                      ELSE FreshSession(SecondConfig)]

\* a chat of the observer and people_x (one candidate: the routing model is
\* not asked): the calls that build the histories,
\* a send may be cancelled while it waits, and generate_summary between them
NextTranscript ==
    \/ \E m \in TranscriptUserTexts : SendStart("c1", Main, m, None)
    \/ \E r \in TranscriptReplies : SendAgentReturn("c1", r)
    \/ SendAgentFail("c1")
    \/ SleepDone("c1")
    \/ SendCancel("c1")
    \/ /\ NoCallInFlight(Main)
       /\ "people_x" \notin Range(ParticipantNames(sess[Main].participants))
       /\ \E info \in NextInRoster(Main) : AddParticipant(Main, info)
    \/ ~sess[Main].is_initialized /\ InitializeCall(Main)
    \/ \E n \in TranscriptMaxMessages : SummaryStart("c1", Main, n)
    \/ \E a \in SummaryAnswers : SummaryDone("c1", a)

SpecTranscript == InitTranscript /\ [][NextTranscript]_vars

\* both implementations with one configuration, reset_conversation (sk) and
\* the two readers of the conversation: generate_summary (lc) and
\* get_conversation_text (sk)
InitText == Init /\ sess[Main].config = LifeConfig

NextText ==
    \/ \E m \in SummaryMessages, sd \in Senders : SendStart("c1", Main, m, sd)
    \/ \E a \in RoutingAnswers : RoutingDone("c1", a)
    \/ \E r \in Replies : SendAgentReturn("c1", r)
    \/ SendAgentFail("c1")
    \/ SleepDone("c1")
    \/ NoCallInFlight(Main) /\ \E info \in NextInRoster(Main) : AddParticipant(Main, info)
    \/ ~sess[Main].is_initialized /\ InitializeCall(Main)
    \/ NoCallInFlight(Main) /\ Reset(Main)
    \/ \E n \in SummaryMaxMessages : SummaryStart("c1", Main, n)
    \/ \E a \in SummaryAnswers : SummaryDone("c1", a)
    \/ NoCallInFlight(Main) /\ GetConversationText(Main)

SpecText == InitText /\ [][NextText]_vars

\* two callers on one session (lc): a send may start while another one is
\* suspended in its loop
RaceConfig == Config(3, DefaultKeyword, TRUE, TRUE)

InitRace ==
    /\ impl = "lc"
    /\ env \in Envs("lc")
    /\ registry = AgentNames
    /\ sess = [sid \in Sessions |-> FreshSession(RaceConfig)]
    /\ call = [c \in Calls |-> IdleCall]
    /\ sel = NoSel
    /\ last = NoLast

RaceMessages == {"status"}

NextRace ==
    \/ \E c \in Calls :
           \/ \E m \in RaceMessages, sd \in Senders : SendStart(c, Main, m, sd)
           \/ \E a \in RoutingAnswers : RoutingDone(c, a)
           \/ \E r \in Replies : SendAgentReturn(c, r)
           \/ SendAgentFail(c)
           \/ SleepDone(c)
    \/ \E info \in NextInRoster(Main) : AddParticipant(Main, info)

SpecRace == InitRace /\ [][NextRace]_vars

\* the session after add_participant was called for the first k entries of
\* the roster, every agent being registered
RECURSIVE RosterSession(_, _, _, _)
RosterSession(im, e, cfg, k) ==
    IF k = 0
    THEN FreshSession(cfg)
    ELSE AddParticipantResult(im, e, AgentNames, RosterSession(im, e, cfg, k - 1),
                              Roster[k]).s

\* send calls alone, one after the other, on a chat whose participants were
\* added beforehand; agents may leave the registry at any time
InitLive ==
    /\ impl \in Impls
    /\ env \in Envs(impl)
    /\ registry = AgentNames
    /\ \E cfg \in Configs(impl), k \in 0..Len(Roster) :
           sess = [sid \in Sessions |->
                      IF sid = Main
                      THEN RosterSession(impl, env, cfg, k)
                      ELSE FreshSession(SecondConfig)]
    /\ call = [c \in Calls |-> IdleCall]
    /\ sel = NoSel
    /\ last = NoLast

NextLive ==
    \/ \E m \in UserMessages, sd \in Senders : SendStart("c1", Main, m, sd)
    \/ \E a \in RoutingAnswers : RoutingDone("c1", a)
    \/ \E r \in Replies : SendAgentReturn("c1", r)
    \/ SendAgentFail("c1")
    \/ SleepDone("c1")
    \/ \E n \in Vanishing \cap registry : UnregisterAgent(n)

\* the awaits of send_message that are pending
RoutingPending == call["c1"].kind = "send" /\ call["c1"].pc = "routing"
AgentPending == call["c1"].kind = "send" /\ call["c1"].pc = "agent"
DelayPending == call["c1"].kind = "send" /\ call["c1"].pc = "sleep"

\* The scheduling of the event loop: a pending routing-model call, agent
\* invocation (which returns or raises) and pacing delay each come back, and
\* nobody cancels the call.  Each conjunct is the weak fairness WF_call(A) of
\* the action that resumes the coroutine, []<>~ENABLED <<A>>_call \/
\* []<><<A>>_call, with ENABLED <<A>>_call written as the guard of A: the
\* action is enabled exactly when its await is pending, and it always changes
\* call.
SpecLive ==
    /\ InitLive
    /\ [][NextLive]_vars
    /\ \/ []<>~RoutingPending
       \/ []<><<\E a \in RoutingAnswers : RoutingDone("c1", a)>>_call
    /\ \/ []<>~AgentPending
       \/ []<><<(\E r \in Replies : SendAgentReturn("c1", r)) \/ SendAgentFail("c1")>>_call
    /\ \/ []<>~DelayPending
       \/ []<><<SleepDone("c1")>>_call

\* the same two callers on a session of either implementation
InitRaceAny ==
    /\ impl \in Impls
    /\ env \in Envs(impl)
    /\ registry = AgentNames
    /\ sess = [sid \in Sessions |-> FreshSession(RaceConfig)]
    /\ call = [c \in Calls |-> IdleCall]
    /\ sel = NoSel
    /\ last = NoLast

SpecRaceAny == InitRaceAny /\ [][NextRace]_vars

\* Requests on one session that nothing serialises: while a send or a
\* broadcast is suspended, the directory is changed, the conversation is
\* reset, cleaned up or read, and a summary is asked for.  A reset inside a
\* send gives its loop new turns: it is taken while the call has returned
\* fewer responses than MaxHistory.
InterleaveNames == {"people_x", "knowledge_y"}

NextInterleave ==
    \/ \E m \in RaceMessages, sd \in Senders : SendStart("c1", Main, m, sd)
    \/ \E a \in RoutingAnswers : RoutingDone("c1", a)
    \/ \E r \in Replies : SendAgentReturn("c1", r)
    \/ SendAgentFail("c1")
    \/ SleepDone("c1")
    \/ \E m \in RaceMessages, sd \in Senders : BroadcastStart("c1", Main, m, sd)
    \/ \E r \in Replies : BroadcastAgentReturn("c1", r)
    \/ BroadcastAgentFail("c1")
    \/ \E info \in NextInRoster(Main) : AddParticipant(Main, info)
    \/ \E n \in InterleaveNames : RemoveParticipant(Main, n)
    \/ Len(call["c1"].responses) < MaxHistory /\ Reset(Main)
    \/ ~sess[Main].cleaned /\ Cleanup(Main)
    \/ GetConversationText(Main)
    \/ \E n \in SummaryMaxMessages : SummaryStart("c2", Main, n)
    \/ \E a \in SummaryAnswers : SummaryDone("c2", a)

SpecInterleave == InitRaceAny /\ [][NextInterleave]_vars

\* two sessions, each with its own caller: GROUP_CHATS holds one orchestrator
\* per session id, and the calls on different sessions interleave freely
SessionOf(c) == IF c = "c1" THEN "s1" ELSE "s2"

TwoMessages == {"status"}

TwoReplies == {"ok"}

\* a call starts on a session whose history is shorter than this
MaxTwoHistory == 1

CanStartTwo(c) == Len(sess[SessionOf(c)].conversation_history) < MaxTwoHistory

\* no routing model: the speakers are chosen by keyword
InitTwo ==
    /\ impl \in Impls
    /\ env = "absent"
    /\ registry = AgentNames
    /\ sess = [sid \in Sessions |-> FreshSession(LifeConfig)]
    /\ call = [c \in Calls |-> IdleCall]
    /\ sel = NoSel
    /\ last = NoLast

NextTwo ==
    \E c \in Calls :
        \/ \E m \in TwoMessages, sd \in Senders :
               CanStartTwo(c) /\ SendStart(c, SessionOf(c), m, sd)
        \/ \E r \in TwoReplies : SendAgentReturn(c, r)
        \/ SleepDone(c)
        \/ \E m \in TwoMessages, sd \in Senders :
               CanStartTwo(c) /\ BroadcastStart(c, SessionOf(c), m, sd)
        \/ \E r \in TwoReplies : BroadcastAgentReturn(c, r)
        \/ NoCallInFlight(SessionOf(c))
               /\ \E info \in NextInRoster(SessionOf(c)) : AddParticipant(SessionOf(c), info)
        \/ NoCallInFlight(SessionOf(c)) /\ Reset(SessionOf(c))
        \/ NoCallInFlight(SessionOf(c)) /\ ~sess[SessionOf(c)].cleaned
               /\ Cleanup(SessionOf(c))

SpecTwo == InitTwo /\ [][NextTwo]_vars

----------------------------------------------------------------------------
(* Claims about send_message and broadcast_message *)

Exited(c) == c.pc \in {"returned", "raised", "cancelled"}

\* the turns a send call has run: the loop iterations that selected a speaker
\* or tried to (each one increments turn_count exactly once)
TurnsOf(c) == sess[c.sid].turn_count - c.turn0

KeywordHit(c, r) ==
    Contains(Lower(sess[c.sid].config.termination_keyword), Lower(r.content))

ResponseNames(c) == [i \in 1..Len(c.responses) |-> c.responses[i].agent_name]

\* C1: a send call that returns hands back at most max_turns responses, the
\* synthesized error response included.
C1_SendAtMostMaxTurnsResponses ==
    \A c \in Calls :
        call[c].kind = "send" /\ call[c].pc = "returned"
            => Len(call[c].responses) <= sess[call[c].sid].config.max_turns

\* a send that used the whole budget of 2 and ended on the error response
C1_Witness ==
    \E c \in Calls :
        /\ call[c].kind = "send" /\ call[c].pc = "returned"
        /\ sess[call[c].sid].config.max_turns = 2
        /\ Len(call[c].responses) = 2
        /\ call[c].responses[2].error

\* C2: once no call is running, turn_count never exceeds max_turns, whatever
\* sequence of send and broadcast calls was made.
C2_TurnCountWithinMaxTurns ==
    \A sid \in Sessions :
        NoCallInFlight(sid) => sess[sid].turn_count <= sess[sid].config.max_turns

\* C3: a send or broadcast call that returns normally returns a non-empty
\* response list.
C3_NeverEmptySuccess ==
    \A c \in Calls : call[c].pc = "returned" => Len(call[c].responses) > 0

\* C4: when a send call has exited, by return, by a raised error or by
\* cancellation, conversation_active is false.
C4_SendExitClearsActive ==
    \A c \in Calls :
        call[c].kind = "send" /\ Exited(call[c])
            => ~sess[call[c].sid].conversation_active

\* a send cancelled between two turns, after its first reply
C4_Witness ==
    \E c \in Calls :
        /\ call[c].kind = "send" /\ call[c].pc = "cancelled"
        /\ Len(call[c].responses) = 1
        /\ ~sess[call[c].sid].conversation_active

\* C5: with enable_termination_keyword, a reply that contains the keyword
\* (compared case-insensitively) is the last response of its send call, which
\* has returned with conversation_active false; without it, a send that
\* returned on a reply containing the keyword had used up its turn budget.
C5_KeywordTermination ==
    \A c \in Calls :
        call[c].kind = "send" =>
            LET r == call[c].responses
                s == sess[call[c].sid]
            IN  /\ s.config.enable_termination_keyword =>
                      \A i \in 1..Len(r) :
                          ~r[i].error /\ KeywordHit(call[c], r[i])
                              => /\ i = Len(r)
                                 /\ call[c].pc = "returned"
                                 /\ ~s.conversation_active
                                 /\ Len(call[c].invoked) = Len(r)
                /\ ( /\ ~s.config.enable_termination_keyword
                     /\ call[c].pc = "returned" /\ Len(r) > 0
                     /\ ~r[Len(r)].error /\ KeywordHit(call[c], r[Len(r)]) )
                      => s.turn_count >= s.config.max_turns

\* the keyword "TERMINATE" ended a send on the reply "We can Terminate now" with a
\* turn of the budget left
C5_Witness ==
    \E c \in Calls :
        LET r == call[c].responses
            s == sess[call[c].sid]
        IN  /\ call[c].kind = "send" /\ call[c].pc = "returned"
            /\ s.config.enable_termination_keyword
            /\ Len(r) = 1 /\ r[1].content = "We can Terminate now"
            /\ ~Contains(s.config.termination_keyword, r[1].content)
            /\ s.turn_count < s.config.max_turns
            /\ ~s.conversation_active

\* C6 as stated: when the agent of the N-th turn of a send call fails, the
\* call returns exactly N responses, the last one the error response.
C6_ErrorAtTurnNGivesNResponses ==
    \A c \in Calls :
        call[c].kind = "send" /\ call[c].pc = "returned" /\ call[c].agent_failed
            => /\ Len(call[c].responses) = TurnsOf(call[c])
               /\ call[c].responses[Len(call[c].responses)].error

\* C6 amended: when the agent of the N-th turn of a send call fails, the call
\* returns N responses less one for every earlier turn of the call that a
\* registry miss skipped (so exactly N when none was), the last one is the
\* error response, the failing invocation is the last one of the call, and
\* conversation_active is false.
C6_ErrorStopsSend ==
    \A c \in Calls :
        call[c].kind = "send" /\ call[c].pc = "returned" /\ call[c].agent_failed
            => LET r == call[c].responses
               IN  /\ Len(r) = TurnsOf(call[c]) - Len(call[c].skipped)
                   /\ Len(r) >= 1
                   /\ r[Len(r)].error
                   /\ \A i \in 1..(Len(r) - 1) : ~r[i].error
                   /\ Len(call[c].invoked) = Len(r)
                   /\ (impl = "sk" => call[c].skipped = <<>>)
                   /\ ~sess[call[c].sid].conversation_active

\* the agent of the second turn failed: two responses, the second the error
C6_Witness ==
    \E c \in Calls :
        /\ call[c].kind = "send" /\ call[c].pc = "returned" /\ call[c].agent_failed
        /\ TurnsOf(call[c]) = 2
        /\ Len(call[c].responses) = 2
        /\ call[c].responses[2].error

\* C7 as stated: a broadcast over N active participants returns exactly N
\* responses, one per active participant in directory order, and adds exactly
\* 1 to turn_count.
C7_BroadcastOnePerActive ==
    \A c \in Calls :
        call[c].kind = "broadcast" /\ call[c].pc = "returned"
            => /\ ResponseNames(call[c]) = call[c].active
               /\ TurnsOf(call[c]) = 1

\* C7 amended: a broadcast returns one response for every active participant
\* that resolves in the registry when its turn comes (every one of them in
\* the Semantic Kernel implementation, which holds its agents itself), in
\* directory order, and adds exactly 1 to turn_count.
C7_BroadcastOnePerResolved ==
    \A c \in Calls :
        call[c].kind = "broadcast" /\ call[c].pc = "returned"
            => /\ Len(call[c].active) >= 1
               /\ ResponseNames(call[c]) =
                      SelectSeq(call[c].active, LAMBDA n : n \notin Range(call[c].skipped))
               /\ (impl = "sk" => call[c].skipped = <<>>)
               /\ TurnsOf(call[c]) = 1

\* a broadcast over two active participants (and an observer) returned two
\* responses, one of them an error response
C7_Witness ==
    \E c \in Calls :
        /\ call[c].kind = "broadcast" /\ call[c].pc = "returned"
        /\ Len(sess[call[c].sid].participants) = 3
        /\ Len(call[c].active) = 2
        /\ Len(call[c].responses) = 2
        /\ call[c].responses[1].error

\* C8: every agent of a broadcast round is handed the original message and the
\* history as it stood when the round's user message had been recorded: no
\* reply of the same round is in it.
C8_BroadcastIsolation ==
    \A c \in Calls :
        call[c].kind = "broadcast" =>
            \A i \in 1..Len(call[c].invoked) :
                /\ call[c].invoked[i].message = call[c].message
                /\ call[c].invoked[i].hist_len = call[c].hist0 + 1

----------------------------------------------------------------------------
(* _select_next_speaker on its own: the directory, the counters, the current
   speaker, the message and the routing model's answer are drawn from
   bounded sets, and the selector is applied once *)

\* the most participants a drawn directory holds
MaxDirectory == 2

SelNames == {"people_x", "People_Ops", "knowledge_y", "Analyst"}

\* role, priority, max_consecutive_turns of a drawn participant
SelProfiles == {<<"participant", 1, 1>>, <<"facilitator", 2, 2>>, <<"observer", 1, 1>>}

SelParticipants == {Participant(n, p[1], p[2], p[3]) : n \in SelNames, p \in SelProfiles}

\* the directories: every key once, in any order
Directories ==
    {d \in UNION {[1..k -> SelParticipants] : k \in 0..MaxDirectory} :
        \A i, j \in 1..Len(d) : i # j => d[i].agent_name # d[j].agent_name}

SelMessages == {"Who knows how?", "Explain it", "status", "TEAM status"}

SelAnswers ==
    {[ok |-> TRUE, text |-> "knowledge_y"],
     [ok |-> TRUE, text |-> " Analyst\n"],
     [ok |-> TRUE, text |-> "ask people_x"],
     [ok |-> FALSE, text |-> ""]}

\* GroupChatConfig.max_turns: int = 10
DefaultMaxTurns == 10

\* _select_next_speaker on its own: what it reads (the directory, the counters,
\* the routing model, the current speaker it is given) is drawn, with every
\* counter 0 except, possibly, the current speaker's, as the loop of
\* send_message leaves them; it reads neither the history nor turn_count.
InitSelect ==
    /\ impl \in Impls
    /\ env \in Envs(impl)
    /\ registry = AgentNames
    /\ call = [c \in Calls |-> IdleCall]
    /\ sel = NoSel
    /\ last = NoLast
    /\ \E auto \in (IF impl = "sk" THEN BOOLEAN ELSE {TRUE}), d \in Directories :
       \E cur \in {None} \cup Range(ParticipantNames(d)), k \in 0..MaxCounter :
           sess = [sid \in Sessions |->
                      IF sid = Main
                      THEN [FreshSession(Config(DefaultMaxTurns, DefaultKeyword, TRUE, auto)) EXCEPT
                               !.participants = d,
                               !.is_initialized = TRUE,
                               !.routing_llm = (impl = "lc" /\ env = "present"),
                               !.current_speaker = cur,
                               !.consecutive_turns =
                                   [n \in Range(ParticipantNames(d)) |->
                                       IF n = cur THEN k ELSE 0]]
                      ELSE FreshSession(SecondConfig)]

\* what add_participant is called with: a registered name in any profile
AddInfos == {info \in SelParticipants : info.agent_name \in AgentNames}

\* the directory holds at most MaxDirectory names
RoomFor(name) ==
    \/ Len(sess[Main].participants) < MaxDirectory
    \/ name \in Range(ParticipantNames(sess[Main].participants))

\* _select_next_speaker(message, self.current_speaker) from its entry to its
\* return or, in the LangChain selector, to the await of the routing model.
\* sel keeps the arguments, the directory and the counters at the entry, the
\* candidate list and what is returned.
SelectStart(message) ==
    /\ ~sel.applied /\ ~sel.waiting
    /\ LET s == sess[Main]
           pre == SelectPre(impl, s.config, s.participants, s.consecutive_turns,
                            s.routing_llm, message, s.current_speaker)
       IN  /\ sel' = [applied |-> pre.kind # "llm",
                      waiting |-> pre.kind = "llm",
                      message |-> message,
                      current_speaker |-> s.current_speaker,
                      parts   |-> s.participants,
                      before  |-> s.consecutive_turns,
                      answer  |-> NoAnswer,
                      result  |-> [raised    |-> pre.kind = "raise",
                                   consulted |-> pre.kind = "llm",
                                   speaker   |-> pre.speaker,
                                   counters  |-> pre.counters,
                                   avail     |-> pre.avail]]
           /\ sess' = [sess EXCEPT ![Main].consecutive_turns = pre.counters]
    /\ UNCHANGED <<impl, env, registry, call, last>>

\* the routing model has answered or raised: the answer is tested against the
\* candidate list made before the await, the fallback rotates over that list
\* and reads the priorities from the directory as it is now
SelectDone(answer) ==
    /\ sel.waiting
    /\ sel' = [sel EXCEPT !.applied = TRUE,
                          !.waiting = FALSE,
                          !.answer = answer,
                          !.result.speaker =
                              SelectPost(impl, sess[Main].participants, sel.result.avail,
                                         sel.current_speaker, answer)]
    /\ UNCHANGED <<impl, env, registry, sess, call, last>>

\* the selector, and one add_participant call while it waits for the routing
\* model
NextSelect ==
    \/ \E m \in SelMessages : SelectStart(m)
    \/ \E a \in SelAnswers : SelectDone(a)
    \/ \E info \in AddInfos :
           /\ sel.waiting /\ last.op # "add"
           /\ RoomFor(info.agent_name)
           /\ AddParticipant(Main, info)

SpecSelect == InitSelect /\ [][NextSelect]_vars

\* add_participant on its own (lc): the registry is drawn too
SelRegistries == {SelNames, SelNames \ {"people_x"}, {"knowledge_y"}}

InitAdd ==
    /\ impl = "lc"
    /\ env = "present"
    /\ registry \in SelRegistries
    /\ sess = [sid \in Sessions |->
                  FreshSession(IF sid = Main THEN LifeConfig ELSE SecondConfig)]
    /\ call = [c \in Calls |-> IdleCall]
    /\ sel = NoSel
    /\ last = NoLast

\* add_participant with any name and profile, also a name already there,
\* between the send calls that move the counters and the current speaker
NextAdd ==
    \/ \E info \in AddInfos :
           NoCallInFlight(Main) /\ RoomFor(info.agent_name) /\ AddParticipant(Main, info)
    \/ ~sess[Main].is_initialized /\ InitializeCall(Main)
    \/ SendStart("c1", Main, "status", None)
    \/ \E a \in RoutingAnswers : RoutingDone("c1", a)
    \/ SendAgentReturn("c1", "ok")
    \/ SleepDone("c1")

SpecAdd == InitAdd /\ [][NextAdd]_vars

\* remove_participant (sk) between the add_participant and send calls that
\* fill the directory, move the counters and set the current speaker
InitRemove ==
    /\ impl = "sk"
    /\ env = "present"
    /\ registry = AgentNames
    /\ sess = [sid \in Sessions |->
                  FreshSession(IF sid = Main THEN LifeConfig ELSE SecondConfig)]
    /\ call = [c \in Calls |-> IdleCall]
    /\ sel = NoSel
    /\ last = NoLast

NextRemove ==
    \/ \E n \in SelNames : NoCallInFlight(Main) /\ RemoveParticipant(Main, n)
    \/ \E info \in AddInfos :
           NoCallInFlight(Main) /\ RoomFor(info.agent_name) /\ AddParticipant(Main, info)
    \/ SendStart("c1", Main, "status", None)
    \/ SendAgentReturn("c1", "ok")
    \/ SleepDone("c1")

SpecRemove == InitRemove /\ [][NextRemove]_vars

InitSelectLC == InitSelect /\ impl = "lc"
SpecSelectLC == InitSelectLC /\ [][NextSelect]_vars

----------------------------------------------------------------------------
(* Claims about _select_next_speaker *)

\* the directory when the selector was called, and as it is now
SelParts == sel.parts
SelLiveParts == sess[Main].participants
SelActive == ActiveParticipants(SelParts)
SelLimit(n) == Info(SelParts, n).max_consecutive_turns

\* every active participant had reached its max_consecutive_turns
SelSaturated == \A n \in Range(SelActive) : GetTurns(sel.before, n) >= SelLimit(n)

\* the candidates: the active participants below their limit, or all of the
\* active ones when there is none
SelCandidates ==
    IF SelSaturated THEN Range(SelActive)
    ELSE {n \in Range(SelActive) : GetTurns(sel.before, n) < SelLimit(n)}

SelPosition(n) == IndexOf(ParticipantNames(SelParts), n)

SelAutomatic == impl = "lc" \/ sess[Main].config.auto_select_speaker

\* C9 as stated: with an active participant the selector returns an active
\* participant; if every active participant had reached its limit, the active
\* participants' counters are 0 afterwards and the choice is among all of them.
C9_SelectNeverFailsAndResets ==
    sel.applied /\ SelActive # <<>>
        => /\ ~sel.result.raised
           /\ sel.result.speaker \in Range(ActiveParticipants(SelLiveParts))
           /\ SelSaturated =>
                  /\ \A n \in Range(SelActive) : sess[Main].consecutive_turns[n] = 0
                  /\ sel.result.avail = SelActive

\* C9 amended: with an active participant the selector returns, for every
\* counter values, a participant that was active when it was called; that
\* participant is still active at the return unless the routing model was
\* awaited (LangChain) and add_participant made it an observer meanwhile: the
\* candidates are listed once, before the await.  If every active participant
\* had reached its limit and auto-selection is in effect (always, in the
\* LangChain implementation), the active participants' counters are reset to 0
\* and the choice is among all of them; with auto_select_speaker off (Semantic
\* Kernel) the first active participant is returned and no counter is touched.
C9_SelectNeverFails ==
    sel.applied /\ SelActive # <<>>
        => /\ ~sel.result.raised
           /\ sel.result.speaker \in Range(SelActive)
           /\ sel.result.speaker \notin Range(ActiveParticipants(SelLiveParts)) =>
                  /\ impl = "lc" /\ sel.result.consulted
                  /\ Info(SelLiveParts, sel.result.speaker).role = "observer"
                  /\ Info(SelParts, sel.result.speaker).role # "observer"
           /\ SelSaturated /\ SelAutomatic =>
                  /\ \A n \in Range(SelActive) : sess[Main].consecutive_turns[n] = 0
                  /\ sel.result.avail = SelActive
           /\ ~SelAutomatic =>
                  /\ sel.result.speaker = SelActive[1]
                  /\ sess[Main].consecutive_turns = sel.before

\* two candidates, the routing model is asked; while it is awaited
\* add_participant makes knowledge_y an observer; the model names knowledge_y,
\* which is in the list made before the await, and it is returned
C9_Witness ==
    /\ sel.applied /\ impl = "lc" /\ sel.result.consulted
    /\ sel.result.avail = <<"people_x", "knowledge_y">>
    /\ Info(SelParts, "knowledge_y").role # "observer"
    /\ Info(SelLiveParts, "knowledge_y").role = "observer"
    /\ sel.answer.ok /\ Strip(sel.answer.text) = "knowledge_y"
    /\ sel.result.speaker = "knowledge_y"

\* C10: when the message holds a people hint and a candidate's name contains
\* "people", the selector returns the first such candidate in directory
\* order without asking the routing model, also when a knowledge hint and a
\* knowledge candidate are there too; the one returned is below its limit.
C10_PeopleShortCircuit ==
    sel.applied =>
        LET people == {n \in SelCandidates : Contains("people", Lower(n))}
        IN  AnyKeyword(PeopleKeywords, Lower(sel.message)) /\ people # {}
                => /\ ~sel.result.raised
                   /\ sel.result.speaker \in people
                   /\ \A n \in people : SelPosition(sel.result.speaker) <= SelPosition(n)
                   /\ ~sel.result.consulted
                   /\ sess[Main].consecutive_turns[sel.result.speaker]
                          < SelLimit(sel.result.speaker)

\* "Who knows how?" holds a hint of either kind; knowledge_y comes first in
\* the directory, a routing model is configured, and People_Ops is selected
C10_Witness ==
    /\ sel.applied
    /\ sel.message = "Who knows how?"
    /\ sess[Main].routing_llm
    /\ ParticipantNames(SelParts) = <<"knowledge_y", "People_Ops">>
    /\ SelCandidates = {"knowledge_y", "People_Ops"}
    /\ sel.result.speaker = "People_Ops"
    /\ ~sel.result.consulted

----------------------------------------------------------------------------
(* Claims about reset_conversation, cleanup, initialize and the failing
   entries of send_message *)

\* the names of the participant directory
DirectoryNames(s) == Range(ParticipantNames(s.participants))

\* C11: after reset_conversation the history is empty, turn_count is 0,
\* current_speaker is absent, conversation_active is false, every counter is
\* 0, and the participant directory is what it was before.
C11_ResetClearsTransientState ==
    last.op = "reset" =>
        LET s == sess[last.sid]
        IN  /\ s.conversation_history = <<>>
            /\ s.turn_count = 0
            /\ s.current_speaker = None
            /\ ~s.conversation_active
            /\ DOMAIN s.consecutive_turns = DirectoryNames(s)
            /\ \A n \in DOMAIN s.consecutive_turns : s.consecutive_turns[n] = 0
            /\ s.participants = last.before.participants

\* a reset of a session of three participants that had a history, a current
\* speaker with a counter above 0 and turns consumed
C11_Witness ==
    /\ last.op = "reset"
    /\ Len(sess[last.sid].participants) = 3
    /\ last.before.conversation_history # <<>>
    /\ last.before.turn_count > 0
    /\ last.before.current_speaker # None
    /\ last.before.consecutive_turns[last.before.current_speaker] > 0
    /\ sess[last.sid].consecutive_turns[last.before.current_speaker] = 0

----------------------------------------------------------------------------
(* Claims about generate_summary *)

\* the template's lines naming the participants and the turn count
SummaryNamesAndTurns(s, out) ==
    /\ \A n \in DirectoryNames(s) : Contains(n, out)
    /\ Contains("Participants: " \o Join(", ", ParticipantNames(s.participants)) \o "\n", out)
    /\ Contains("Turns: " \o ToStr(s.turn_count) \o "\n", out)

\* C12: with neither a routing nor a summary model, generate_summary on a
\* non-empty history returns a non-empty text that holds every participant
\* name and the turn count, and no model is asked.
C12_SummaryWithoutModel ==
    ( /\ last.op = "summary"
      /\ ~last.before.routing_llm /\ ~last.before.summary_llm
      /\ last.before.conversation_history # <<>> )
        => /\ last.ok
           /\ Len(last.out) > 0
           /\ SummaryNamesAndTurns(last.before, last.out)
           /\ last.model = "none"

\* a summary without a model of a session of three participants after two turns
C12_Witness ==
    /\ last.op = "summary"
    /\ ~last.before.routing_llm /\ ~last.before.summary_llm
    /\ Len(last.before.conversation_history) = 3
    /\ Len(last.before.participants) = 3
    /\ last.before.turn_count = 2
    /\ Contains("Turns: 2\n", last.out)

\* C13: when the model asked for the summary fails, generate_summary returns
\* the template text (participants, turn count, transcript excerpt) without
\* raising, and the session is as it was before the call.
C13_SummaryModelFailure ==
    last.op = "summary" /\ last.model = "failed"
        => /\ last.ok
           /\ SummaryNamesAndTurns(last.before, last.out)
           /\ \E n \in SummaryMaxMessages :
                  Contains("Recent Excerpt (truncated):\n"
                               \o Take(Transcript(last.before, n), ExcerptCap),
                           last.out)
           /\ sess[last.sid] = last.before

\* the dedicated summary model failed on a history of three messages
C13_Witness ==
    /\ last.op = "summary" /\ last.model = "failed"
    /\ last.before.summary_llm
    /\ Len(last.before.conversation_history) = 3
    /\ Contains("Conversation Summary (fallback)\n", last.out)
    /\ Contains("people_x: ok", last.out)

\* the fields a failed call must leave alone
SameConversationState(s, b) ==
    /\ s.conversation_history = b.conversation_history
    /\ s.turn_count = b.turn_count
    /\ s.consecutive_turns = b.consecutive_turns
    /\ s.current_speaker = b.current_speaker
    /\ s.conversation_active = b.conversation_active

\* C14: a send on a session with an empty participant directory raises the
\* no-participants error, and history, turn_count, counters, current_speaker
\* and conversation_active are what they were before the call.
C14_SendWithoutParticipants ==
    \A c \in Calls :
        call[c].kind = "send" /\ call[c].sid = last.sid =>
            /\ ( last.op = "raise" /\ last.out = "no_participants"
                   => /\ last.before.participants = <<>>
                      /\ SameConversationState(sess[last.sid], last.before)
                      /\ sess[last.sid].participants = <<>>
                      /\ call[c].responses = <<>> /\ call[c].invoked = <<>> )
            /\ ( last.op = "call" => sess[last.sid].participants # <<>> )

\* a send that failed on a session which cleanup had emptied after two turns
C14_Witness ==
    /\ last.op = "raise" /\ last.out = "no_participants"
    /\ call["c1"].kind = "send" /\ call["c1"].pc = "raised"
    /\ last.before.turn_count = 2
    /\ last.before.current_speaker # None
    /\ sess[last.sid].turn_count = 2

\* C15: a send on a session whose participants are all observers ends with
\* the no-active-participants error raised to the caller, not with a response
\* list.
C15_NoActiveErrorIsRaised ==
    \A c \in Calls :
        ( /\ call[c].kind = "send" /\ call[c].pc \in {"returned", "raised"}
          /\ last.op \in {"call", "raise"} /\ last.sid = call[c].sid
          /\ call[c].turn0 < sess[call[c].sid].config.max_turns
          /\ sess[call[c].sid].participants # <<>>
          /\ ActiveParticipants(sess[call[c].sid].participants) = <<>> )
            => /\ call[c].pc = "raised"
               /\ call[c].error = "no_active"
               /\ call[c].responses = <<>>

\* the responses of a call that are agents' replies
Replied(c) == SelectSeq(c.responses, LAMBDA r : ~r.error)

\* C16 (lc): a turn whose speaker does not resolve in the registry consumes
\* one turn of the budget and leaves no response and no history entry; the
\* next agent invoked is handed the message the skipped one would have got;
\* and a send that skipped a turn returns only with the budget used up, on
\* the termination keyword or on an error.
C16_RegistryMissSkipsTurn ==
    impl = "lc" =>
        \A c \in Calls :
            call[c].kind = "send" /\ call[c].pc \in {"routing", "agent", "sleep", "returned"}
                => LET r == call[c].responses
                       inv == call[c].invoked
                       s == sess[call[c].sid]
                       selection_error ==
                           Len(r) > 0 /\ r[Len(r)].error /\ ~call[c].agent_failed
                   IN  /\ TurnsOf(call[c]) =
                              Len(inv) + Len(call[c].skipped)
                                  + (IF selection_error THEN 1 ELSE 0)
                                  + (IF call[c].pc = "routing" THEN 1 ELSE 0)
                       /\ Len(Replied(call[c])) =
                              Len(inv) - (IF call[c].pc = "agent" THEN 1 ELSE 0)
                                       - (IF call[c].agent_failed THEN 1 ELSE 0)
                       /\ Len(s.conversation_history) =
                              call[c].hist0 + 1 + Len(Replied(call[c]))
                       /\ \A i \in 1..Len(inv) :
                              inv[i].message =
                                  IF i = 1 THEN call[c].message ELSE r[i - 1].content
                       /\ ( call[c].pc = "returned" /\ call[c].skipped # <<>> )
                              => \/ s.turn_count >= s.config.max_turns
                                 \/ Len(r) > 0 /\ r[Len(r)].error
                                 \/ /\ s.config.enable_termination_keyword
                                    /\ Len(r) > 0 /\ KeywordHit(call[c], r[Len(r)])

\* the speaker of the first turn was gone from the registry; the second turn's
\* agent got the user's message and replied
C16_Witness ==
    \E c \in Calls :
        /\ impl = "lc"
        /\ call[c].kind = "send" /\ call[c].pc = "returned"
        /\ Len(call[c].skipped) = 1
        /\ Len(call[c].invoked) = 1
        /\ call[c].invoked[1].turn = call[c].turn0 + 2
        /\ call[c].invoked[1].message = call[c].message
        /\ Len(call[c].responses) = 1 /\ ~call[c].responses[1].error
        /\ Len(sess[call[c].sid].conversation_history) = call[c].hist0 + 2

----------------------------------------------------------------------------
(* Claims about add_participant *)

\* the positions of the directory that hold the name
EntriesOf(parts, name) == {i \in 1..Len(parts) : parts[i].agent_name = name}

\* C17 (lc): add_participant with a name the registry does not resolve fails
\* and leaves the directory and the counters as they were; a successful add
\* stores the participant with a counter of 0; adding an existing name
\* replaces its entry in place, and the name is in the directory once.
C17_AddParticipant ==
    impl = "lc" /\ last.op = "add" =>
        LET info == last.out
            name == info.agent_name
            b == last.before
            s == sess[last.sid]
        IN  /\ last.ok = (name \in registry)
            /\ ~last.ok => /\ s.participants = b.participants
                           /\ s.consecutive_turns = b.consecutive_turns
            /\ last.ok =>
                   /\ Cardinality(EntriesOf(s.participants, name)) = 1
                   /\ Info(s.participants, name) = info
                   /\ s.consecutive_turns[name] = 0
                   /\ \A n \in DOMAIN b.consecutive_turns \ {name} :
                          s.consecutive_turns[n] = b.consecutive_turns[n]
                   /\ IF EntriesOf(b.participants, name) = {}
                      THEN s.participants = Append(b.participants, info)
                      ELSE /\ Len(s.participants) = Len(b.participants)
                           /\ \A i \in 1..Len(b.participants) :
                                  s.participants[i] =
                                      IF i \in EntriesOf(b.participants, name)
                                      THEN info ELSE b.participants[i]

\* people_x, the current speaker with a counter of 2, is added again with
\* another role: one entry, in its old place, counter 0
C17_Witness ==
    /\ impl = "lc" /\ last.op = "add" /\ last.ok
    /\ last.out.agent_name = "people_x"
    /\ Len(last.before.participants) = 2
    /\ last.before.participants[1].agent_name = "people_x"
    /\ last.before.participants[1] # last.out
    /\ last.before.consecutive_turns["people_x"] = 2
    /\ sess[last.sid].participants[1] = last.out
    /\ Len(sess[last.sid].participants) = 2
    /\ sess[last.sid].consecutive_turns["people_x"] = 0

----------------------------------------------------------------------------
(* Claims about initialize *)

\* C18: initialize, called by the application or by the first send or
\* broadcast, fails when the endpoint and the key are absent, and the session
\* is then not marked initialized: where they are absent no session is ever
\* initialized and no initialize() has returned normally.
C18_InitializeFailsWithoutParameters ==
    env = "absent" =>
        /\ \A sid \in Sessions : ~sess[sid].is_initialized
        /\ ~(last.op = "initialize" /\ last.ok)

----------------------------------------------------------------------------
(* Claims about cleanup *)

\* C19 (sk): cleanup is terminal: when cleanup() returns, the participants and
\* the history are empty and conversation_active is false, and every send or
\* broadcast made on the session after it fails with an error and invokes no
\* agent.
C19_CleanupIsTerminal ==
    \A sid \in Sessions :
        /\ last.op = "cleanup" /\ last.sid = sid =>
               /\ sess[sid].participants = <<>>
               /\ sess[sid].conversation_history = <<>>
               /\ ~sess[sid].conversation_active
        /\ sess[sid].cleaned /\ last.sid = sid /\ last.op \in {"call", "raise"} =>
               /\ last.op = "raise"
               /\ \A c \in Calls :
                      call[c].sid = sid /\ call[c].pc # "idle" =>
                          call[c].pc = "raised" /\ call[c].invoked = <<>>

----------------------------------------------------------------------------
(* Claims about sessions *)

\* the conversation state of a session and its directory
ConversationState(s) ==
    [conversation_history |-> s.conversation_history,
     turn_count           |-> s.turn_count,
     consecutive_turns    |-> s.consecutive_turns,
     current_speaker      |-> s.current_speaker,
     conversation_active  |-> s.conversation_active,
     participants         |-> s.participants]

\* C20: sessions are independent: a step of any operation on one session
\* (send, broadcast, add, reset, cleanup) leaves the history, turn_count,
\* counters, current_speaker, conversation_active and directory of every
\* other session as they were, however the calls on the sessions interleave.
C20_SessionsIndependent ==
    [][\A sid \in Sessions :
           sid # last'.sid => ConversationState(sess'[sid]) = ConversationState(sess[sid])]_vars

\* a send on s1 is suspended in an agent while a call on s2 has just taken a
\* step, and the two sessions hold different conversations
C20_Witness ==
    /\ call["c1"].pc = "agent" /\ call["c1"].kind = "send"
    /\ last.sid = "s2" /\ last.op = "call" /\ call["c2"].pc = "agent"
    /\ sess["s1"].conversation_active /\ sess["s2"].conversation_active
    /\ Len(sess["s1"].conversation_history) = 2
    /\ Len(sess["s2"].conversation_history) = 1
    /\ sess["s1"].turn_count = 2 /\ sess["s2"].turn_count = 1
    /\ Len(sess["s1"].participants) # Len(sess["s2"].participants)

----------------------------------------------------------------------------
(* Claims about the readers of the conversation *)

\* C21: the summary (lc) or the conversation text (sk) of a session whose
\* history is empty, a fresh session or one that was just reset, is exactly
\* "No conversation yet.", and no model is asked for it.
C21_EmptyConversationText ==
    last.op \in {"summary", "text"} /\ last.before.conversation_history = <<>> =>
        /\ last.ok
        /\ last.out = "No conversation yet."
        /\ last.model = "none"

\* lc: a fresh session with a routing model and two participants is
\* summarized before any message
C21_WitnessFresh ==
    /\ impl = "lc" /\ last.op = "summary"
    /\ last.before.conversation_history = <<>>
    /\ last.before.routing_llm /\ Len(last.before.participants) = 2
    /\ last.out = NoConversationText

\* sk: the text is asked for after a send has returned two responses and the
\* conversation was reset
C21_WitnessReset ==
    /\ impl = "sk" /\ last.op = "text"
    /\ call["c1"].pc = "returned" /\ Len(call["c1"].responses) = 2
    /\ last.before.conversation_history = <<>> /\ last.before.participants # <<>>
    /\ last.out = NoConversationText

----------------------------------------------------------------------------
(* Claims about the consecutive-turn counters *)

\* the turns a call has selected a speaker for: invoked or skipped
Selections(c) == Len(c.invoked) + Len(c.skipped)

\* the counters as the selector leaves them (reset when nobody is below the
\* limit), before the loop updates them
SelectorCounters(s) ==
    SelectPre(impl, s.config, s.participants, s.consecutive_turns, s.routing_llm,
              "", s.current_speaker).counters

\* a step of send call c in which exactly one turn selected its speaker
OneTurnStep(c) ==
    /\ call'[c].kind = "send"
    /\ \/ Suspended(call[c]) /\ call[c].kind = "send"
          /\ Selections(call'[c]) = Selections(call[c]) + 1
       \/ ~Suspended(call[c]) /\ call'[c] # call[c] /\ Selections(call'[c]) = 1

\* the counters of every session: a non-zero one belongs to the current speaker
OnlySpeakerCounts ==
    \A sid \in Sessions :
        \A n \in DOMAIN sess[sid].consecutive_turns :
            sess[sid].consecutive_turns[n] # 0 => n = sess[sid].current_speaker

\* the counters after a one-turn step: the speaker's is one more than the
\* selector left it, every other one is 0
TurnCounts(c) ==
    LET sid == call'[c].sid
        before == SelectorCounters(sess[sid])
        after == sess'[sid].consecutive_turns
        speaker == sess'[sid].current_speaker
    IN  /\ speaker \in DOMAIN after
        /\ \A n \in DOMAIN after :
               after[n] = IF n = speaker THEN GetTurns(before, n) + 1 ELSE 0

\* C22: each turn of send increments the selected speaker's counter by
\* exactly 1 and sets every other participant's counter to 0; in every state
\* at most one participant has a non-zero counter and it is the current
\* speaker.
C22_CountersFollowSpeaker ==
    /\ []OnlySpeakerCounts
    /\ [][\A c \in Calls : OneTurnStep(c) => TurnCounts(c)]_vars

\* the second turn of a send went to another speaker than the first: the
\* first speaker's counter is back at 0, the second's is 1
C22_Witness ==
    /\ call["c1"].kind = "send" /\ call["c1"].pc = "agent"
    /\ Len(call["c1"].invoked) = 2
    /\ call["c1"].invoked[1].agent # call["c1"].invoked[2].agent
    /\ sess[Main].consecutive_turns[call["c1"].invoked[1].agent] = 0
    /\ sess[Main].consecutive_turns[call["c1"].invoked[2].agent] = 1
    /\ sess[Main].current_speaker = call["c1"].invoked[2].agent

----------------------------------------------------------------------------
(* Claims about the deterministic fallback and the routing model *)

\* the current_speaker the selector was called with
SelCurrent == sel.current_speaker

\* a keyword hint of the message meets a candidate of its kind
SelKeywordDecides ==
    \/ /\ AnyKeyword(PeopleKeywords, Lower(sel.message))
       /\ \E n \in SelCandidates : Contains("people", Lower(n))
    \/ /\ AnyKeyword(KnowledgeKeywords, Lower(sel.message))
       /\ \E n \in SelCandidates : Contains("knowledge", Lower(n))

\* the routing model was asked and its answer was taken
SelModelDecides ==
    /\ sel.result.consulted
    /\ sel.answer.ok
    /\ sel.result.speaker = Strip(sel.answer.text)

\* the candidate that comes first in directory order among those of the set
SelFirstOf(names) == CHOOSE n \in names : \A m \in names : SelPosition(n) <= SelPosition(m)

\* the candidate after the current speaker in directory order, the first
\* candidate when none follows
SelNextInTurn ==
    LET later == {n \in SelCandidates : SelPosition(n) > SelPosition(SelCurrent)}
    IN  IF later # {} THEN SelFirstOf(later) ELSE SelFirstOf(SelCandidates)

\* the candidate of the highest priority in the directory parts, the earliest
\* in directory order among equals
SelTopPriority(parts) ==
    SelFirstOf({n \in SelCandidates :
                   \A m \in SelCandidates :
                       Info(parts, m).priority <= Info(parts, n).priority})

SelFallbackChoice(parts) ==
    IF SelCurrent \in SelCandidates THEN SelNextInTurn ELSE SelTopPriority(parts)

\* C23 as stated: when neither a keyword hint nor the routing model decides,
\* the selector returns the candidate right after current_speaker in
\* directory order (wrapping) if current_speaker is a candidate, otherwise the
\* candidate of the highest priority, the earliest among equals.
C23_Fallback ==
    sel.applied /\ SelActive # <<>> /\ ~SelKeywordDecides /\ ~SelModelDecides
        => sel.result.speaker = SelFallbackChoice(SelParts)

\* C23 amended: the same, when automatic selection is in effect (always, in
\* the LangChain implementation), the candidates being those listed when the
\* selector was called and the priorities those of the directory when the
\* fallback runs, after the await of the routing model if it was asked; with
\* auto_select_speaker off the Semantic Kernel selector returns the first
\* active participant whoever spoke last.
C23_FallbackWhenAutomatic ==
    sel.applied /\ SelActive # <<>> /\ ~SelKeywordDecides /\ ~SelModelDecides
        => sel.result.speaker =
               IF SelAutomatic THEN SelFallbackChoice(SelLiveParts) ELSE SelActive[1]

\* nobody has spoken, two candidates of priority 1, the routing model is asked;
\* while it is awaited add_participant gives the second a priority of 2; the
\* model's answer names nobody and the second candidate is returned
C23_Witness ==
    /\ sel.applied /\ sel.message = "status"
    /\ SelCurrent = None
    /\ Len(SelParts) = 2 /\ SelCandidates = Range(ParticipantNames(SelParts))
    /\ SelParts[1].priority = 1 /\ SelParts[2].priority = 1
    /\ SelLiveParts[2].priority = 2
    /\ sel.result.consulted /\ ~SelModelDecides
    /\ sel.result.speaker = SelParts[2].agent_name

\* the candidates the routing model's answer matches: the answer, stripped,
\* is the name or holds the name
SelAnswerMatches ==
    {n \in SelCandidates :
        sel.answer.ok /\ (Strip(sel.answer.text) = n \/ Contains(n, Strip(sel.answer.text)))}

\* C24 (lc): when the routing model is asked (more than one candidate, a model
\* configured, no keyword hint decides), its answer is taken as the next
\* speaker if it is an exact or a substring match against a candidate name;
\* any other answer is rejected and the deterministic fallback decides; the
\* speaker is a candidate either way.
C24_RoutingAnswerAccepted ==
    sel.applied /\ impl = "lc" /\ sel.result.consulted =>
        /\ sel.result.speaker \in SelCandidates
        /\ IF SelAnswerMatches # {}
           THEN sel.result.speaker \in SelAnswerMatches
           ELSE sel.result.speaker = SelFallbackChoice(SelLiveParts)

----------------------------------------------------------------------------
(* Claims about the history during a send *)

\* C25: when an agent invocation fails during a send turn, the history grows
\* by one message for that turn, carrying the error, in addition to the error
\* response in the returned list: the call has added the user message and one
\* message per response, and the last message is the error.
C25_FailureIsRecorded ==
    \A c \in Calls :
        call[c].kind = "send" /\ call[c].pc = "returned" /\ call[c].agent_failed
            => LET h == sess[call[c].sid].conversation_history
                   r == call[c].responses
               IN  /\ Len(h) = call[c].hist0 + 1 + Len(r)
                   /\ h[Len(h)].content = r[Len(r)].content

\* the invocations of call c made before its turn number t
InvokedBefore(c, t) == SelectSeq(c.invoked, LAMBDA v : v.turn < t)

\* the current message when turn number t of call c begins: the caller's
\* message, or the reply of the latest earlier turn that produced one
CurrentMessageAt(c, t) ==
    LET k == Len(InvokedBefore(c, t))
    IN  IF k = 0 THEN c.message ELSE c.responses[k].content

\* C26 (lc): in a send call the first turn's agent receives the caller's
\* message and every later turn's agent receives the reply of the most recent
\* turn that produced one; the selector is called for a turn with that same
\* current message and with the speaker of the previous turn as
\* current_speaker.
C26_MessageChain ==
    \A c \in Calls :
        call[c].kind = "send" =>
            LET r == call[c]
            IN  /\ \A i \in 1..Len(r.invoked) :
                       r.invoked[i].message = CurrentMessageAt(r, r.invoked[i].turn)
                /\ \A j \in 1..Len(r.asked) :
                       /\ r.asked[j].message = CurrentMessageAt(r, r.turn0 + j)
                       /\ j > 1 =>
                              \/ \E v \in Range(r.invoked) :
                                     v.turn = r.turn0 + j - 1 /\ v.agent = r.asked[j].cur
                              \/ /\ \A v \in Range(r.invoked) : v.turn # r.turn0 + j - 1
                                 /\ r.asked[j].cur \in Range(r.skipped)

\* the second turn of a send: its agent was handed the first reply, not the
\* caller's message, and the selector was asked with the first speaker
C26_Witness ==
    /\ impl = "lc" /\ call["c1"].kind = "send" /\ call["c1"].pc = "agent"
    /\ Len(call["c1"].invoked) = 2 /\ Len(call["c1"].asked) = 2
    /\ call["c1"].message = "Who leads?"
    /\ call["c1"].responses[1].content = "ok"
    /\ call["c1"].invoked[2].message = "ok"
    /\ call["c1"].asked[2] = Asked("ok", call["c1"].invoked[1].agent)

----------------------------------------------------------------------------
(* Claims about observers *)

\* the observers of a session's directory
Observers(s) == {p.agent_name : p \in {q \in Range(s.participants) : q.role = "observer"}}
    /\ Len(call["c1"].invoked) = 2
    /\ call["c1"].invoked[1].agent = "knowledge_y"
    /\ call["c1"].invoked[2].agent = "people_x"
    /\ call["c1"].asked[2].cur = "knowledge_y"

----------------------------------------------------------------------------
(* Claims about the transcript of generate_summary *)

\* the label of a history message in the transcript
TranscriptLabel(msg) == IF Len(msg.name) > 0 /\ msg.name # None THEN msg.name ELSE msg.role

\* the lines render the messages of the history from position first + 1 on
\* without a gap, and with their separators stay within the character limit
TranscriptRunFrom(first) ==
    LET h == last.before.conversation_history
    IN  /\ Len(last.lines) <= Len(h) - first
        /\ \A i \in 1..Len(last.lines) : last.lines[i] = TranscriptLine(h[first + i])
        /\ Len(Join("\n", last.lines)) <= last.before.summary_transcript_char_limit

\* the messages before the tail of max_messages messages
TranscriptBeforeTail ==
    LET h == last.before.conversation_history
        n == last.max_messages
    IN  IF n <= 0 THEN Len(h) ELSE IF Len(h) > n THEN Len(h) - n ELSE 0

\* the messages before the window history[-max_messages:]: all but the last
\* max_messages when max_messages >= 1, none when it is 0, the first
\* -max_messages when it is negative
TranscriptBeforeWindow ==
    LET h == last.before.conversation_history
        n == last.max_messages
    IN  IF n > 0 THEN (IF Len(h) > n THEN Len(h) - n ELSE 0)
        ELSE (IF Len(h) <= -n THEN Len(h) ELSE -n)

\* C28 as stated: the transcript built by generate_summary consists of at most
\* max_messages lines taken in order from the tail of the history as a
\* contiguous run starting at the first message of that tail window, every
\* rendered line is at most 1000 characters long, and the transcript with its
\* separators does not exceed the character limit.
C28_TranscriptLinesCapped ==
    last.op = "summary" /\ last.before.conversation_history # <<>> =>
        /\ Len(last.lines) <= last.max_messages
        /\ TranscriptRunFrom(TranscriptBeforeTail)
        /\ \A i \in 1..Len(last.lines) : Len(last.lines[i]) <= 1000

\* C28 amended: the lines are a contiguous run, in order, from the first
\* message of the window history[-max_messages:], which is the tail of
\* max_messages messages only when max_messages >= 1 (then there are at most
\* max_messages lines), the whole history when max_messages is 0 and the
\* history without its first -max_messages messages when it is negative; the
\* cap of 1000 characters is on the text after the label: a line is at most
\* its label, ": " and 1000 characters, and a longer content is cut to 997
\* characters and "..."; the transcript with its separators does not exceed
\* the character limit.
C28_TranscriptSnippetsCapped ==
    last.op = "summary" /\ last.before.conversation_history # <<>> =>
        /\ last.max_messages >= 1 => Len(last.lines) <= last.max_messages
        /\ TranscriptRunFrom(TranscriptBeforeWindow)
        /\ \A i \in 1..Len(last.lines) :
               LET h == last.before.conversation_history
                   msg == h[TranscriptBeforeWindow + i]
                   line == last.lines[i]
                   label == TranscriptLabel(msg) \o ": "
               IN  /\ SubSeq(line, 1, Len(label)) = label
                   /\ Len(line) <= Len(label) + 1000
                   /\ Len(Strip(msg.content)) > 1000 =>
                          /\ Len(line) = Len(label) + 1000
                          /\ SubSeq(line, Len(line) - 2, Len(line)) = "..."

\* a history of three summarized with max_messages 0 and the default limit:
\* the window is the whole history, three lines for a max_messages of 0, and
\* the user message of 1001 characters gives a line of 1006: the label, 997
\* characters and "..."
C28_Witness ==
    /\ last.op = "summary"
    /\ Len(last.before.conversation_history) = 3
    /\ last.max_messages = 0
    /\ last.before.summary_transcript_char_limit = DefaultTranscriptCharLimit
    /\ Len(last.lines) = 3
    /\ Len(last.lines[1]) = 1006
    /\ last.lines[1] = "User: " \o Take(last.before.conversation_history[1].content, SnippetKeep)
                            \o "..."

----------------------------------------------------------------------------
(* Claims about remove_participant *)

\* C29 (sk): remove_participant(name) returns true exactly when name is in
\* the directory; it then removes that participant's entry and counter,
\* clears current_speaker if it was that name, and leaves the other entries
\* (and their order) and counters, the history and turn_count as they were;
\* when the name is absent it returns false and changes nothing.
C29_RemoveParticipant ==
    last.op = "remove" =>
        LET name == last.out
            b == last.before
            s == sess[last.sid]
        IN  /\ last.ok = (name \in DirectoryNames(b))
            /\ ~last.ok => s = b
            /\ last.ok =>
                   /\ name \notin DirectoryNames(s)
                   /\ name \notin DOMAIN s.consecutive_turns
                   /\ s.participants = SelectSeq(b.participants, LAMBDA p : p.agent_name # name)
                   /\ Len(s.participants) = Len(b.participants) - 1
                   /\ DOMAIN s.consecutive_turns = DOMAIN b.consecutive_turns \ {name}
                   /\ \A n \in DOMAIN s.consecutive_turns :
                          s.consecutive_turns[n] = b.consecutive_turns[n]
                   /\ s.current_speaker =
                          IF b.current_speaker = name THEN None ELSE b.current_speaker
                   /\ s.conversation_history = b.conversation_history
                   /\ s.turn_count = b.turn_count
                   /\ s.conversation_active = b.conversation_active

\* the current speaker, first of two and with a counter of 2, is removed
\* after a conversation: the other entry stays, nobody is the current speaker
C29_Witness ==
    /\ last.op = "remove" /\ last.ok
    /\ Len(last.before.participants) = 2
    /\ last.before.participants[1].agent_name = last.out
    /\ last.before.current_speaker = last.out
    /\ last.before.consecutive_turns[last.out] = 2
    /\ last.before.conversation_history # <<>>
    /\ sess[last.sid].participants = <<last.before.participants[2]>>
    /\ sess[last.sid].current_speaker = None

----------------------------------------------------------------------------
(* Claims about two send calls on one session *)

\* conversation_active is true only while a send call is in its loop
ActiveOnlyInLoop ==
    \A sid \in Sessions :
        sess[sid].conversation_active =>
            \E c \in Calls : call[c].kind = "send" /\ call[c].sid = sid /\ Suspended(call[c])

\* a send call that comes back from its pacing delay after another call's
\* exit has cleared conversation_active returns at once: no further turn
StopsWhenCleared(c) ==
    /\ call[c].kind = "send" /\ call[c].pc = "sleep"
    /\ ~sess[call[c].sid].conversation_active
    /\ call'[c] # call[c]
    => /\ call'[c].pc = "returned"
       /\ call'[c].invoked = call[c].invoked
       /\ call'[c].responses = call[c].responses
       /\ sess'[call[c].sid].turn_count = sess[call[c].sid].turn_count

\* C30 (lc): two send calls on one session interfere through the shared
\* state: every exit of a call clears conversation_active, and a call that is
\* suspended in its loop meanwhile stops at its next loop test, before the
\* turn budget, the termination keyword or an agent error ends it.
C30_ConcurrentSendsInterfere ==
    /\ []ActiveOnlyInLoop
    /\ [][\A c \in Calls : StopsWhenCleared(c)]_vars

\* c2 has returned one response, without an agent error, without the
\* keyword and with the turn budget not used up, because c1, started first,
\* failed while c2 was suspended
C30_Witness ==
    /\ call["c1"].kind = "send" /\ call["c1"].pc = "returned" /\ call["c1"].agent_failed
    /\ call["c2"].kind = "send" /\ call["c2"].pc = "returned" /\ ~call["c2"].agent_failed
    /\ call["c2"].turn0 = call["c1"].turn0 + 1
    /\ Len(call["c2"].responses) = 1
    /\ call["c2"].responses[1].content = "ok"
    /\ sess[Main].turn_count = 2
    /\ sess[Main].turn_count < sess[Main].config.max_turns
    /\ last.op = "call"

----------------------------------------------------------------------------
(* Claims about turn_count and the turn limit *)

\* C31: turn_count counts only the turns for which a speaker was selected: a
\* send call whose speaker selection fails on its first iteration (there is
\* no active participant) leaves turn_count and every consecutive-turn
\* counter (all 0, the directory holding observers only) as before the call.
C31_FailedSelectionCountsNoTurn ==
    \A c \in Calls :
        /\ call[c].kind = "send" /\ call[c].pc \in {"returned", "raised"}
        /\ Len(call[c].asked) = 1
        /\ ActiveParticipants(sess[call[c].sid].participants) = <<>>
        => /\ sess[call[c].sid].turn_count = call[c].turn0
           /\ \A n \in DOMAIN sess[call[c].sid].consecutive_turns :
                  sess[call[c].sid].consecutive_turns[n] = 0

\* speaker auto-selection is in effect and at least two participants are active
AutoWithTwoActive(s) ==
    /\ s.config.auto_select_speaker
    /\ Len(ActiveParticipants(s.participants)) >= 2

\* no counter of a session is above its participant's max_consecutive_turns
WithinConsecutiveLimit ==
    \A sid \in Sessions :
        AutoWithTwoActive(sess[sid]) =>
            \A n \in Range(ParticipantNames(sess[sid].participants)) :
                GetTurns(sess[sid].consecutive_turns, n)
                    <= Info(sess[sid].participants, n).max_consecutive_turns

\* a one-turn step extends the run of the current speaker or starts a run of
\* 1: the selector resets no counter, so a counter is the length of a run
RunOfSpeaker(c) ==
    LET sid == call'[c].sid
        s == sess[sid]
        speaker == sess'[sid].current_speaker
    IN  AutoWithTwoActive(s) =>
            /\ SelectorCounters(s) = s.consecutive_turns
            /\ sess'[sid].consecutive_turns[speaker] =
                   IF speaker = s.current_speaker
                   THEN GetTurns(s.consecutive_turns, speaker) + 1
                   ELSE 1

\* C32: with at least two active participants and auto-selection in effect,
\* no participant is selected for more than its max_consecutive_turns turns in
\* a row, within one send call and across successive send calls: no
\* consecutive-turn counter exceeds its participant's max_consecutive_turns,
\* and each counter is the length of its participant's current run.
C32_ConsecutiveTurnsBounded ==
    /\ []WithinConsecutiveLimit
    /\ [][\A c \in Calls : OneTurnStep(c) => RunOfSpeaker(c)]_vars

\* people_x spoke its one allowed turn and the next turn of the same call
\* went to knowledge_y
C32_Witness ==
    /\ sess[Main].config.auto_select_speaker
    /\ call["c1"].kind = "send"
    /\ Len(call["c1"].invoked) = 2
    /\ call["c1"].invoked[1].agent = "people_x"
    /\ Info(sess[Main].participants, "people_x").max_consecutive_turns = 1
    /\ call["c1"].invoked[2].agent = "knowledge_y"
    /\ call["c1"].invoked[2].turn = call["c1"].invoked[1].turn + 1
    /\ sess[Main].consecutive_turns["people_x"] = 0

\* a send that returned with no agent failure, no registry miss and no reply
\* carrying the termination keyword
UndisturbedSend(c) ==
    /\ c.kind = "send" /\ c.pc = "returned"
    /\ ~c.agent_failed
    /\ c.skipped = <<>>
    /\ \A i \in 1..Len(c.responses) : ~KeywordHit(c, c.responses[i])

\* max(0, max_turns - t) for the turn_count t the call was entered with
TurnsLeftAtEntry(c) ==
    IF sess[c.sid].config.max_turns > c.turn0
    THEN sess[c.sid].config.max_turns - c.turn0
    ELSE 0

SendUsesWholeBudget ==
    \A c \in Calls :
        UndisturbedSend(call[c]) => Len(call[c].responses) = TurnsLeftAtEntry(call[c])

\* a step that lowers a session's turn_count is a reset of that session
LoweredOnlyByReset ==
    \A sid \in Sessions :
        sess'[sid].turn_count < sess[sid].turn_count
            => last'.op = "reset" /\ last'.sid = sid

\* C33: if no agent fails, every selected speaker resolves in the registry
\* and no reply contains the termination keyword, a send call entered with
\* turn_count = t returns exactly max(0, max_turns - t) responses; turn_count
\* accumulates over send and broadcast calls and only reset lowers it.
C33_SendUsesWholeBudget ==
    /\ []SendUsesWholeBudget
    /\ [][LoweredOnlyByReset]_vars

----------------------------------------------------------------------------
(* Claims about the directory, the history and the frame of broadcast *)

\* C34: in every reachable state, after any sequence of add_participant,
\* remove_participant, send, broadcast, reset and cleanup, the names holding
\* a consecutive-turn counter are exactly the names of the participant
\* directory, and current_speaker is absent or a name of the directory.
C34_CountersMatchDirectory ==
    \A sid \in Sessions :
        /\ DOMAIN sess[sid].consecutive_turns = DirectoryNames(sess[sid])
        /\ sess[sid].current_speaker \in {None} \cup DirectoryNames(sess[sid])

\* the calls on session sid that this step accepted: a call begins and its
\* entry check passes (send: the directory is not empty; broadcast: somebody
\* is active)
AcceptedNow(sid) ==
    {c \in Calls :
        /\ ~Suspended(call[c]) /\ last'.op \in {"call", "raise"} /\ last'.sid = sid
        /\ \A d \in Calls \ {c} : call'[d] = call[d]
        /\ call'[c].kind \in {"send", "broadcast"} /\ call'[c].sid = sid
        /\ ~(call'[c].pc = "raised" /\ call'[c].error = "no_participants")
        /\ ~(call'[c].kind = "broadcast" /\ call'[c].pc = "raised")}

\* the calls on session sid whose agent returned a reply in this step
RepliedNow(sid) ==
    {c \in Calls :
        /\ call[c].pc = "agent" /\ call[c].sid = sid
        /\ Len(call'[c].responses) = Len(call[c].responses) + 1
        /\ ~call'[c].responses[Len(call'[c].responses)].error}

\* reset_conversation, or the terminal cleanup, of session sid
EmptiedNow(sid) == last'.op \in {"reset", "cleanup"} /\ last'.sid = sid

\* one step on the history of session sid
HistoryStep(sid) ==
    LET h == sess[sid].conversation_history
        h2 == sess'[sid].conversation_history
        acc == AcceptedNow(sid)
        rep == RepliedNow(sid)
    IN  IF EmptiedNow(sid)
        THEN h2 = <<>>
        ELSE /\ Len(h2) >= Len(h) /\ SubSeq(h2, 1, Len(h)) = h
             /\ GetConversationSummary(sess'[sid]).message_count
                    = GetConversationSummary(sess[sid]).message_count
                      + Cardinality(acc) + Cardinality(rep)
             /\ \A c \in acc :
                    /\ h2[Len(h) + 1].role = "user"
                    /\ h2[Len(h) + 1].content = call'[c].message
                    /\ call'[c].responses = <<>> \/ call'[c].responses[1].error
             /\ \A c \in rep :
                    /\ h2[Len(h2)].role = "assistant"
                    /\ h2[Len(h2)].content = call'[c].responses[Len(call'[c].responses)].content

\* C35: the history is append-only between resets: send and broadcast never
\* remove, reorder or rewrite an entry, an accepted call appends its user
\* message before any of its replies, and the reported message_count, 0 for
\* a new session, grows by one for each accepted send or broadcast call and
\* by one for each non-error agent reply, and by nothing else.
C35_HistoryAppendOnly ==
    /\ \A sid \in Sessions : GetConversationSummary(sess[sid]).message_count = 0
    /\ [][\A sid \in Sessions : HistoryStep(sid)]_vars

\* a send was accepted, one agent replied and the next one failed: two
\* entries, the user message first, and two responses
C35_Witness ==
    /\ call["c1"].kind = "send" /\ call["c1"].pc = "returned"
    /\ call["c1"].agent_failed
    /\ Len(call["c1"].responses) = 2
    /\ call["c1"].hist0 = 0
    /\ GetConversationSummary(sess[Main]).message_count = 2
    /\ sess[Main].conversation_history[1].role = "user"
    /\ sess[Main].conversation_history[2].role = "assistant"

----------------------------------------------------------------------------
(* Claims about interleaved calls, termination and the frame of broadcast *)

\* the turn numbers under which the agents of call c were invoked
TurnStamps(c) == {c.invoked[i].turn : i \in 1..Len(c.invoked)}

\* C36: when two send calls on one session interleave at the suspension
\* points of the turn loop, the agent invocations of both calls together, and
\* the resulting turn_count, never exceed max_turns; no invocation carries a
\* turn number outside 1..max_turns.
C36_InterleavedSendsWithinBudget ==
    LET s == sess[Main]
        a == call["c1"]
        b == call["c2"]
    IN  /\ s.turn_count <= s.config.max_turns
        /\ Len(a.invoked) + Len(b.invoked) <= s.config.max_turns
        /\ Len(a.invoked) + Len(b.invoked) <= s.turn_count
        /\ TurnStamps(a) \cup TurnStamps(b) \subseteq 1..s.config.max_turns

\* the second call entered after the first turn of the first call and took
\* one turn; the first call then took the last turn of the budget of three
C36_Witness ==
    /\ call["c1"].kind = "send" /\ call["c2"].kind = "send"
    /\ call["c1"].turn0 = 0 /\ call["c2"].turn0 = 1
    /\ Len(call["c1"].invoked) = 2
    /\ Len(call["c2"].invoked) = 1
    /\ call["c1"].invoked[2].turn = 3
    /\ sess[Main].turn_count = sess[Main].config.max_turns

\* the iterations of the turn loop a send call has begun are at most
\* max(0, max_turns - t), t the turn_count it was entered with
IterationsWithinBudget ==
    \A c \in Calls :
        call[c].kind = "send" => Len(call[c].asked) <= TurnsLeftAtEntry(call[c])

SendPending == call["c1"].kind = "send" /\ Suspended(call["c1"])

SendFinished == call["c1"].kind = "send" /\ call["c1"].pc \in {"returned", "raised"}

\* C37: every send call terminates: provided every agent invocation,
\* routing-model call and pacing delay eventually comes back, the turn loop
\* begins at most max_turns - t iterations (t the turn_count at entry) and
\* the call then returns or raises, also when a registry miss skips every
\* turn.
C37_SendTerminates ==
    /\ []IterationsWithinBudget
    /\ (SendPending ~> SendFinished)

\* a send whose two turns were both skipped on a registry miss has returned
\* with no response
C37_WitnessAllSkipped ==
    /\ call["c1"].kind = "send" /\ call["c1"].pc = "returned"
    /\ Len(call["c1"].skipped) = 2
    /\ Len(call["c1"].asked) = 2
    /\ call["c1"].invoked = <<>>
    /\ call["c1"].responses = <<>>

\* a step of broadcast call c: its entry, the return or the failure of one of
\* its agents, or its cancellation
BroadcastStep(c) == call'[c] # call[c] /\ call'[c].kind = "broadcast"

\* what a broadcast leaves alone in its session: everything but the history,
\* turn_count and what the lazy initialize() sets up
BroadcastFrame(c) ==
    LET s == sess[call'[c].sid]
        t == sess'[call'[c].sid]
    IN  /\ t.consecutive_turns = s.consecutive_turns
        /\ t.current_speaker = s.current_speaker
        /\ t.conversation_active = s.conversation_active
        /\ t.participants = s.participants
        /\ t.config = s.config
        /\ \A sid \in Sessions \ {call'[c].sid} : sess'[sid] = sess[sid]

\* the active participants after position i of the round that the round can
\* reach: all of them (sk), those in the registry (lc)
StillToInvoke(c, i) ==
    SelectSeq(SubSeq(c.active, i + 1, Len(c.active)),
              LAMBDA n : impl = "lc" => n \in registry)

\* when an agent of the round comes back, with a reply (whatever it contains)
\* or with an exception, the next reachable participant is invoked; the
\* round returns when there is none
BroadcastGoesOn(c) ==
    call[c].kind = "broadcast" /\ call[c].pc = "agent" /\ call'[c].pc # "cancelled"
        => LET rest == StillToInvoke(call[c], call[c].idx)
           IN  /\ Len(call'[c].responses) = Len(call[c].responses) + 1
               /\ IF rest = <<>>
                  THEN call'[c].pc = "returned" /\ call'[c].invoked = call[c].invoked
                  ELSE /\ call'[c].pc = "agent"
                       /\ call'[c].next_speaker = rest[1]
                       /\ Len(call'[c].invoked) = Len(call[c].invoked) + 1

\* C38: a broadcast call changes only the history and turn_count: every
\* consecutive-turn counter, current_speaker and conversation_active stay as
\* they are; the termination keyword is never evaluated and a failing agent
\* does not keep the remaining active participants from being invoked.
C38_BroadcastFrame ==
    [][\A c \in Calls : BroadcastStep(c) => BroadcastFrame(c) /\ BroadcastGoesOn(c)]_vars

\* after a send that left a speaker and a counter behind, a broadcast round
\* returned: its first agent failed, its second replied with the keyword, and
\* the speaker, the counter and conversation_active are as the send left them
C38_Witness ==
    /\ call["c1"].kind = "broadcast" /\ call["c1"].pc = "returned"
    /\ call["c1"].hist0 >= 2
    /\ Len(call["c1"].responses) = 2
    /\ call["c1"].responses[1].error
    /\ KeywordHit(call["c1"], call["c1"].responses[2])
    /\ sess[Main].config.enable_termination_keyword
    /\ sess[Main].current_speaker # None
    /\ sess[Main].consecutive_turns[sess[Main].current_speaker] = 1
    /\ ~sess[Main].conversation_active
    /\ sess[Main].turn_count = call["c1"].turn0 + 1

====
